---- MODULE Spec2Model ----
(***************************************************************************)
(* A model of the grand-router backend: the deterministic routing          *)
(* guardrails, the hybrid router, the file-backed chat store, the agent    *)
(* runner and the /router/execute continuation controller.                 *)
(*                                                                         *)
(* Python strings are sequences of one-character strings, so that strip(), *)
(* lower(), join, slicing and substring search do what python's do.        *)
(* The backquote character is written "backquote".  Optional values are   *)
(* sequences of length 0 (None) or 1.  Confidences are hundredths (0.95 is *)
(* 95).                                                                    *)
(***************************************************************************)
EXTENDS Integers, Sequences, FiniteSets, TLC

VARIABLES
    doc,      \* the store document: [chats, messages_by_chat]
    now,      \* the logical clock read by _utc_now()
    uuid,     \* the next identifier uuid4() hands out
    last,     \* what the last request did: its inputs, its path, its response
    gr,       \* the guardrail engine's inputs and outputs
    run,      \* the agent runner's inputs and outputs
    cg,       \* the codegen pipeline's inputs and outputs
    th        \* the calls in flight on concurrent threads: what each has read

vars == <<doc, now, uuid, last, gr, run, cg, th>>

None == <<>>
Some(x) == <<x>>

\* (query or "New chat")[:40]
TitleLimit == 40

\* msgs[-20:]
HistoryLimit == 20

\* ------------------------------------------------------------------------
\* python string operations
\* ------------------------------------------------------------------------

WHITESPACE == {" ", "\n", "\t", "\r"}

RECURSIVE lstrip(_)
lstrip(s) ==
    IF s # <<>> /\ Head(s) \in WHITESPACE THEN lstrip(Tail(s)) ELSE s

RECURSIVE rstrip(_)
rstrip(s) ==
    IF s # <<>> /\ s[Len(s)] \in WHITESPACE
        THEN rstrip(SubSeq(s, 1, Len(s) - 1))
        ELSE s

strip(s) == rstrip(lstrip(s))

UPPERCASE ==
    <<"A", "B", "C", "D", "E", "F", "G", "H", "I", "J", "K", "L", "M",
      "N", "O", "P", "Q", "R", "S", "T", "U", "V", "W", "X", "Y", "Z">>

LOWERCASE ==
    <<"a", "b", "c", "d", "e", "f", "g", "h", "i", "j", "k", "l", "m",
      "n", "o", "p", "q", "r", "s", "t", "u", "v", "w", "x", "y", "z">>

lower_char(c) ==
    IF \E i \in 1..26 : UPPERCASE[i] = c
        THEN LOWERCASE[CHOOSE i \in 1..26 : UPPERCASE[i] = c]
        ELSE c

lower(s) == [i \in 1..Len(s) |-> lower_char(s[i])]

\* needle in haystack
contains(haystack, needle) ==
    \E i \in 1..(Len(haystack) - Len(needle) + 1) :
        SubSeq(haystack, i, i + Len(needle) - 1) = needle

\* s[:n]
prefix(s, n) == SubSeq(s, 1, IF Len(s) < n THEN Len(s) ELSE n)

\* s[-n:]
suffix(s, n) == SubSeq(s, (IF Len(s) < n THEN 0 ELSE Len(s) - n) + 1, Len(s))

RECURSIVE join(_, _)
join(sep, parts) ==
    IF parts = <<>> THEN <<>>
    ELSE IF Len(parts) = 1 THEN parts[1]
    ELSE parts[1] \o sep \o join(sep, Tail(parts))

NL == <<"\n">>

\* x or default, for a string that may be None or empty
or_default(opt, default) ==
    IF opt = None \/ opt[1] = <<>> THEN default ELSE opt[1]

\* the AgentId enum and str(value) of each member
AgentIds ==
    {"codegen", "planner", "projplan", "chatwriter", "codechat", "planchat",
     "fullstack"}

_value_str(a) ==
    CASE a = "codegen" -> <<"c", "o", "d", "e", "g", "e", "n">>
      [] a = "planner" -> <<"p", "l", "a", "n", "n", "e", "r">>
      [] a = "projplan" -> <<"p", "r", "o", "j", "p", "l", "a", "n">>
      [] a = "chatwriter" -> <<"c", "h", "a", "t", "w", "r", "i", "t", "e", "r">>
      [] a = "codechat" -> <<"c", "o", "d", "e", "c", "h", "a", "t">>
      [] a = "planchat" -> <<"p", "l", "a", "n", "c", "h", "a", "t">>
      [] OTHER -> <<"f", "u", "l", "l", "s", "t", "a", "c", "k">>

\* MISSING_ORIGINAL is the Python string "(missing original_query in pending continuation)"
MISSING_ORIGINAL ==
    <<"(", "m", "i", "s", "s", "i", "n", "g", " ", "o", "r", "i", "g", "i", "n", "a", "l", "_", "q", "u", "e", "r", "y", " ", "i", "n", " ", "p", "e", "n", "d", "i", "n", "g", " ", "c", "o", "n", "t", "i", "n", "u", "a", "t", "i", "o", "n", ")">>
\* ORIGINAL_HEADER is the Python string "ORIGINAL USER REQUEST:\n"
ORIGINAL_HEADER ==
    <<"O", "R", "I", "G", "I", "N", "A", "L", " ", "U", "S", "E", "R", " ", "R", "E", "Q", "U", "E", "S", "T", ":", "\n">>
\* ANSWER_HEADER is the Python string "USER CLARIFICATION ANSWER:\n"
ANSWER_HEADER ==
    <<"U", "S", "E", "R", " ", "C", "L", "A", "R", "I", "F", "I", "C", "A", "T", "I", "O", "N", " ", "A", "N", "S", "W", "E", "R", ":", "\n">>
\* NEW_CHAT_TITLE is the Python string "New chat"
NEW_CHAT_TITLE ==
    <<"N", "e", "w", " ", "c", "h", "a", "t">>
\* NO_NOTES is the Python string "(no notes)"
NO_NOTES ==
    <<"(", "n", "o", " ", "n", "o", "t", "e", "s", ")">>
\* PLEASE_CLARIFY is the Python string "Please clarify your request."
PLEASE_CLARIFY ==
    <<"P", "l", "e", "a", "s", "e", " ", "c", "l", "a", "r", "i", "f", "y", " ", "y", "o", "u", "r", " ", "r", "e", "q", "u", "e", "s", "t", ".">>
\* QUERY_BLANK is the Python string " "
QUERY_BLANK ==
    <<" ">>
\* QUERY_FIX is the Python string " Fix\n"
QUERY_FIX ==
    <<" ", "F", "i", "x", "\n">>
\* QUERY_PLAN is the Python string "plan"
QUERY_PLAN ==
    <<"p", "l", "a", "n">>
\* QUERY_BOTH is the Python string "fix plan.py"
QUERY_BOTH ==
    <<"f", "i", "x", " ", "p", "l", "a", "n", ".", "p", "y">>
\* QUERY_MIXED is the Python string "Fix the bug in checkout and also give me a rollout timeline"
QUERY_MIXED ==
    <<"F", "i", "x", " ", "t", "h", "e", " ", "b", "u", "g", " ", "i", "n", " ", "c", "h", "e", "c", "k", "o", "u", "t", " ", "a", "n", "d", " ", "a", "l", "s", "o", " ", "g", "i", "v", "e", " ", "m", "e", " ", "a", " ", "r", "o", "l", "l", "o", "u", "t", " ", "t", "i", "m", "e", "l", "i", "n", "e">>
\* QUERY_QNA is the Python string "what is JSON?"
QUERY_QNA ==
    <<"w", "h", "a", "t", " ", "i", "s", " ", "J", "S", "O", "N", "?">>
\* QUESTION_BLANK is the Python string "  "
QUESTION_BLANK ==
    <<" ", " ">>
\* QUESTION_WHEN is the Python string " when? "
QUESTION_WHEN ==
    <<" ", "w", "h", "e", "n", "?", " ">>
\* QUESTION_WHERE is the Python string "where?"
QUESTION_WHERE ==
    <<"w", "h", "e", "r", "e", "?">>
\* NOTE_DONE is the Python string "done"
NOTE_DONE ==
    <<"d", "o", "n", "e">>
\* QUESTION_WHICH is the Python string "which?"
QUESTION_WHICH ==
    <<"w", "h", "i", "c", "h", "?">>
\* Q_FALLBACK_1 is the Python string "Could you clarify what you want to achieve?"
Q_FALLBACK_1 ==
    <<"C", "o", "u", "l", "d", " ", "y", "o", "u", " ", "c", "l", "a", "r", "i", "f", "y", " ", "w", "h", "a", "t", " ", "y", "o", "u", " ", "w", "a", "n", "t", " ", "t", "o", " ", "a", "c", "h", "i", "e", "v", "e", "?">>
\* Q_FALLBACK_2 is the Python string "Should I route this to codegen or projplan?"
Q_FALLBACK_2 ==
    <<"S", "h", "o", "u", "l", "d", " ", "I", " ", "r", "o", "u", "t", "e", " ", "t", "h", "i", "s", " ", "t", "o", " ", "c", "o", "d", "e", "g", "e", "n", " ", "o", "r", " ", "p", "r", "o", "j", "p", "l", "a", "n", "?">>
\* Q_CONFLICT_1 is the Python string "Do you want a project plan, code changes, or both?"
Q_CONFLICT_1 ==
    <<"D", "o", " ", "y", "o", "u", " ", "w", "a", "n", "t", " ", "a", " ", "p", "r", "o", "j", "e", "c", "t", " ", "p", "l", "a", "n", ",", " ", "c", "o", "d", "e", " ", "c", "h", "a", "n", "g", "e", "s", ",", " ", "o", "r", " ", "b", "o", "t", "h", "?">>
\* Q_CONFLICT_2 is the Python string "If one: should I route this to codegen or projplan?"
Q_CONFLICT_2 ==
    <<"I", "f", " ", "o", "n", "e", ":", " ", "s", "h", "o", "u", "l", "d", " ", "I", " ", "r", "o", "u", "t", "e", " ", "t", "h", "i", "s", " ", "t", "o", " ", "c", "o", "d", "e", "g", "e", "n", " ", "o", "r", " ", "p", "r", "o", "j", "p", "l", "a", "n", "?">>
\* R_CONFLICT is the Python string "Request contains both planning and coding signals."
R_CONFLICT ==
    <<"R", "e", "q", "u", "e", "s", "t", " ", "c", "o", "n", "t", "a", "i", "n", "s", " ", "b", "o", "t", "h", " ", "p", "l", "a", "n", "n", "i", "n", "g", " ", "a", "n", "d", " ", "c", "o", "d", "i", "n", "g", " ", "s", "i", "g", "n", "a", "l", "s", ".">>
\* R_CLARIFICATION_REQUIRED is the Python string "Clarification required."
R_CLARIFICATION_REQUIRED ==
    <<"C", "l", "a", "r", "i", "f", "i", "c", "a", "t", "i", "o", "n", " ", "r", "e", "q", "u", "i", "r", "e", "d", ".">>
\* Q_SELECTED_PREFIX is the Python string "Selected agent_id '"
Q_SELECTED_PREFIX ==
    <<"S", "e", "l", "e", "c", "t", "e", "d", " ", "a", "g", "e", "n", "t", "_", "i", "d", " ", "'">>
\* Q_SELECTED_SUFFIX is the Python string "' is not available. Which agent should be used?"
Q_SELECTED_SUFFIX ==
    <<"'", " ", "i", "s", " ", "n", "o", "t", " ", "a", "v", "a", "i", "l", "a", "b", "l", "e", ".", " ", "W", "h", "i", "c", "h", " ", "a", "g", "e", "n", "t", " ", "s", "h", "o", "u", "l", "d", " ", "b", "e", " ", "u", "s", "e", "d", "?">>
\* R_SELECTED_UNAVAILABLE is the Python string "selected_agent_id was provided but is not enabled/available."
R_SELECTED_UNAVAILABLE ==
    <<"s", "e", "l", "e", "c", "t", "e", "d", "_", "a", "g", "e", "n", "t", "_", "i", "d", " ", "w", "a", "s", " ", "p", "r", "o", "v", "i", "d", "e", "d", " ", "b", "u", "t", " ", "i", "s", " ", "n", "o", "t", " ", "e", "n", "a", "b", "l", "e", "d", "/", "a", "v", "a", "i", "l", "a", "b", "l", "e", ".">>
\* R_CLIENT_SELECTED is the Python string "Client selected agent."
R_CLIENT_SELECTED ==
    <<"C", "l", "i", "e", "n", "t", " ", "s", "e", "l", "e", "c", "t", "e", "d", " ", "a", "g", "e", "n", "t", ".">>
\* Q_WHICH_AGENT is the Python string "Which agent should handle this request?"
Q_WHICH_AGENT ==
    <<"W", "h", "i", "c", "h", " ", "a", "g", "e", "n", "t", " ", "s", "h", "o", "u", "l", "d", " ", "h", "a", "n", "d", "l", "e", " ", "t", "h", "i", "s", " ", "r", "e", "q", "u", "e", "s", "t", "?">>
\* R_NO_ROUTES is the Python string "No routes returned."
R_NO_ROUTES ==
    <<"N", "o", " ", "r", "o", "u", "t", "e", "s", " ", "r", "e", "t", "u", "r", "n", "e", "d", ".">>
\* Q_NO_MATCH is the Python string "I couldn't match this request to an available agent. Should I route it to codegen or projplan?"
Q_NO_MATCH ==
    <<"I", " ", "c", "o", "u", "l", "d", "n", "'", "t", " ", "m", "a", "t", "c", "h", " ", "t", "h", "i", "s", " ", "r", "e", "q", "u", "e", "s", "t", " ", "t", "o", " ", "a", "n", " ", "a", "v", "a", "i", "l", "a", "b", "l", "e", " ", "a", "g", "e", "n", "t", ".", " ", "S", "h", "o", "u", "l", "d", " ", "I", " ", "r", "o", "u", "t", "e", " ", "i", "t", " ", "t", "o", " ", "c", "o", "d", "e", "g", "e", "n", " ", "o", "r", " ", "p", "r", "o", "j", "p", "l", "a", "n", "?">>
\* R_UNKNOWN_PREFIX is the Python string "LLM returned unknown/disabled agent_id: "
R_UNKNOWN_PREFIX ==
    <<"L", "L", "M", " ", "r", "e", "t", "u", "r", "n", "e", "d", " ", "u", "n", "k", "n", "o", "w", "n", "/", "d", "i", "s", "a", "b", "l", "e", "d", " ", "a", "g", "e", "n", "t", "_", "i", "d", ":", " ">>
\* R_OVERRIDE_CODEGEN is the Python string "Guardrail override: coding/debugging signals detected; routing to codegen."
R_OVERRIDE_CODEGEN ==
    <<"G", "u", "a", "r", "d", "r", "a", "i", "l", " ", "o", "v", "e", "r", "r", "i", "d", "e", ":", " ", "c", "o", "d", "i", "n", "g", "/", "d", "e", "b", "u", "g", "g", "i", "n", "g", " ", "s", "i", "g", "n", "a", "l", "s", " ", "d", "e", "t", "e", "c", "t", "e", "d", ";", " ", "r", "o", "u", "t", "i", "n", "g", " ", "t", "o", " ", "c", "o", "d", "e", "g", "e", "n", ".">>
\* R_OVERRIDE_PLANNER is the Python string "Guardrail override: planning signals detected; routing to planner."
R_OVERRIDE_PLANNER ==
    <<"G", "u", "a", "r", "d", "r", "a", "i", "l", " ", "o", "v", "e", "r", "r", "i", "d", "e", ":", " ", "p", "l", "a", "n", "n", "i", "n", "g", " ", "s", "i", "g", "n", "a", "l", "s", " ", "d", "e", "t", "e", "c", "t", "e", "d", ";", " ", "r", "o", "u", "t", "i", "n", "g", " ", "t", "o", " ", "p", "l", "a", "n", "n", "e", "r", ".">>
\* Q_FORCED_NEEDS_AGENT is the Python string "mode=forced requires forced_agent_id. Which agent should be forced (codegen or projplan)?"
Q_FORCED_NEEDS_AGENT ==
    <<"m", "o", "d", "e", "=", "f", "o", "r", "c", "e", "d", " ", "r", "e", "q", "u", "i", "r", "e", "s", " ", "f", "o", "r", "c", "e", "d", "_", "a", "g", "e", "n", "t", "_", "i", "d", ".", " ", "W", "h", "i", "c", "h", " ", "a", "g", "e", "n", "t", " ", "s", "h", "o", "u", "l", "d", " ", "b", "e", " ", "f", "o", "r", "c", "e", "d", " ", "(", "c", "o", "d", "e", "g", "e", "n", " ", "o", "r", " ", "p", "r", "o", "j", "p", "l", "a", "n", ")", "?">>
\* R_FORCED_NO_AGENT is the Python string "Forced mode requested but no agent was provided."
R_FORCED_NO_AGENT ==
    <<"F", "o", "r", "c", "e", "d", " ", "m", "o", "d", "e", " ", "r", "e", "q", "u", "e", "s", "t", "e", "d", " ", "b", "u", "t", " ", "n", "o", " ", "a", "g", "e", "n", "t", " ", "w", "a", "s", " ", "p", "r", "o", "v", "i", "d", "e", "d", ".">>
\* R_FORCED_ROUTE is the Python string "Forced route."
R_FORCED_ROUTE ==
    <<"F", "o", "r", "c", "e", "d", " ", "r", "o", "u", "t", "e", ".">>
\* Q_LLM_FAILED is the Python string "I couldn't confidently route this request. Should I send it to codegen or projplan?"
Q_LLM_FAILED ==
    <<"I", " ", "c", "o", "u", "l", "d", "n", "'", "t", " ", "c", "o", "n", "f", "i", "d", "e", "n", "t", "l", "y", " ", "r", "o", "u", "t", "e", " ", "t", "h", "i", "s", " ", "r", "e", "q", "u", "e", "s", "t", ".", " ", "S", "h", "o", "u", "l", "d", " ", "I", " ", "s", "e", "n", "d", " ", "i", "t", " ", "t", "o", " ", "c", "o", "d", "e", "g", "e", "n", " ", "o", "r", " ", "p", "r", "o", "j", "p", "l", "a", "n", "?">>
\* R_LLM_FAILED is the Python string "LLM routing failed; clarification required."
R_LLM_FAILED ==
    <<"L", "L", "M", " ", "r", "o", "u", "t", "i", "n", "g", " ", "f", "a", "i", "l", "e", "d", ";", " ", "c", "l", "a", "r", "i", "f", "i", "c", "a", "t", "i", "o", "n", " ", "r", "e", "q", "u", "i", "r", "e", "d", ".">>
\* Q_UNEXPECTED is the Python string "I couldn't route this request. Could you clarify your goal?"
Q_UNEXPECTED ==
    <<"I", " ", "c", "o", "u", "l", "d", "n", "'", "t", " ", "r", "o", "u", "t", "e", " ", "t", "h", "i", "s", " ", "r", "e", "q", "u", "e", "s", "t", ".", " ", "C", "o", "u", "l", "d", " ", "y", "o", "u", " ", "c", "l", "a", "r", "i", "f", "y", " ", "y", "o", "u", "r", " ", "g", "o", "a", "l", "?">>
\* R_UNEXPECTED is the Python string "Unexpected routing error; clarification required."
R_UNEXPECTED ==
    <<"U", "n", "e", "x", "p", "e", "c", "t", "e", "d", " ", "r", "o", "u", "t", "i", "n", "g", " ", "e", "r", "r", "o", "r", ";", " ", "c", "l", "a", "r", "i", "f", "i", "c", "a", "t", "i", "o", "n", " ", "r", "e", "q", "u", "i", "r", "e", "d", ".">>
\* R_AUTO_CONTINUED is the Python string "Auto-continued from pending clarification."
R_AUTO_CONTINUED ==
    <<"A", "u", "t", "o", "-", "c", "o", "n", "t", "i", "n", "u", "e", "d", " ", "f", "r", "o", "m", " ", "p", "e", "n", "d", "i", "n", "g", " ", "c", "l", "a", "r", "i", "f", "i", "c", "a", "t", "i", "o", "n", ".">>
\* R_AGENT_CLARIFY is the Python string "Agent requires clarification."
R_AGENT_CLARIFY ==
    <<"A", "g", "e", "n", "t", " ", "r", "e", "q", "u", "i", "r", "e", "s", " ", "c", "l", "a", "r", "i", "f", "i", "c", "a", "t", "i", "o", "n", ".">>
\* S_CONTINUATION is the Python string "continuation"
S_CONTINUATION ==
    <<"c", "o", "n", "t", "i", "n", "u", "a", "t", "i", "o", "n">>
\* S_ROUTED_TO is the Python string "Routed to "
S_ROUTED_TO ==
    <<"R", "o", "u", "t", "e", "d", " ", "t", "o", " ">>
\* S_CONFIDENCE is the Python string " (confidence "
S_CONFIDENCE ==
    <<" ", "(", "c", "o", "n", "f", "i", "d", "e", "n", "c", "e", " ">>
\* S_CLOSE is the Python string ")."
S_CLOSE ==
    <<")", ".">>
\* S_GENERATED_PLAN is the Python string "Generated a project plan."
S_GENERATED_PLAN ==
    <<"G", "e", "n", "e", "r", "a", "t", "e", "d", " ", "a", " ", "p", "r", "o", "j", "e", "c", "t", " ", "p", "l", "a", "n", ".">>
\* H_KEY_POINTS is the Python string "KEY POINTS ACHIEVED"
H_KEY_POINTS ==
    <<"K", "E", "Y", " ", "P", "O", "I", "N", "T", "S", " ", "A", "C", "H", "I", "E", "V", "E", "D">>
\* H_WHAT_CHANGED is the Python string "WHAT CHANGED (BY FILE)"
H_WHAT_CHANGED ==
    <<"W", "H", "A", "T", " ", "C", "H", "A", "N", "G", "E", "D", " ", "(", "B", "Y", " ", "F", "I", "L", "E", ")">>
\* H_WHY is the Python string "WHY / ROOT CAUSE"
H_WHY ==
    <<"W", "H", "Y", " ", "/", " ", "R", "O", "O", "T", " ", "C", "A", "U", "S", "E">>
\* H_DESIGN is the Python string "DESIGN NOTES (SOLID / PATTERNS)"
H_DESIGN ==
    <<"D", "E", "S", "I", "G", "N", " ", "N", "O", "T", "E", "S", " ", "(", "S", "O", "L", "I", "D", " ", "/", " ", "P", "A", "T", "T", "E", "R", "N", "S", ")">>
\* H_TESTS is the Python string "TEST SCENARIOS"
H_TESTS ==
    <<"T", "E", "S", "T", " ", "S", "C", "E", "N", "A", "R", "I", "O", "S">>
\* S_NOT_APPLICABLE is the Python string "Not applicable."
S_NOT_APPLICABLE ==
    <<"N", "o", "t", " ", "a", "p", "p", "l", "i", "c", "a", "b", "l", "e", ".">>
\* the needles of code_signals (guardrails.py 80-95)
code_signals ==
    {
      <<"s", "t", "a", "c", "k", " ", "t", "r", "a", "c", "e">>,   \* "stack trace"
      <<"t", "r", "a", "c", "e", "b", "a", "c", "k">>,   \* "traceback"
      <<"e", "x", "c", "e", "p", "t", "i", "o", "n">>,   \* "exception"
      <<"e", "r", "r", "o", "r">>,   \* "error"
      <<"b", "u", "g">>,   \* "bug"
      <<"d", "e", "b", "u", "g">>,   \* "debug"
      <<"f", "i", "x">>,   \* "fix"
      <<"r", "e", "f", "a", "c", "t", "o", "r">>,   \* "refactor"
      <<"p", "a", "t", "c", "h">>,   \* "patch"
      <<"u", "n", "i", "t", " ", "t", "e", "s", "t">>,   \* "unit test"
      <<"f", "a", "i", "l", "i", "n", "g", " ", "t", "e", "s", "t">>,   \* "failing test"
      <<"c", "o", "m", "p", "i", "l", "e">>,   \* "compile"
      <<"b", "u", "i", "l", "d">>,   \* "build"
      <<"f", "a", "i", "l", "i", "n", "g">>   \* "failing"
    }
\* the needles of plan_signals (guardrails.py 100-116)
plan_signals ==
    {
      <<"p", "r", "o", "j", "e", "c", "t", " ", "p", "l", "a", "n">>,   \* "project plan"
      <<"e", "x", "e", "c", "u", "t", "i", "o", "n", " ", "p", "l", "a", "n">>,   \* "execution plan"
      <<"d", "e", "t", "a", "i", "l", "e", "d", " ", "e", "x", "e", "c", "u", "t", "i", "o", "n", " ", "p", "l", "a", "n">>,   \* "detailed execution plan"
      <<"m", "v", "p", " ", "p", "l", "a", "n">>,   \* "mvp plan"
      <<"p", "l", "a", "n">>,   \* "plan"
      <<"p", "l", "a", "n", "n", "i", "n", "g">>,   \* "planning"
      <<"t", "i", "m", "e", "l", "i", "n", "e">>,   \* "timeline"
      <<"r", "o", "a", "d", "m", "a", "p">>,   \* "roadmap"
      <<"m", "i", "l", "e", "s", "t", "o", "n", "e">>,   \* "milestone"
      <<"m", "i", "l", "e", "s", "t", "o", "n", "e", "s">>,   \* "milestones"
      <<"r", "e", "q", "u", "i", "r", "e", "m", "e", "n", "t", "s">>,   \* "requirements"
      <<"d", "e", "p", "e", "n", "d", "e", "n", "c", "i", "e", "s">>,   \* "dependencies"
      <<"r", "a", "i", "d">>,   \* "raid"
      <<"r", "a", "c", "i">>,   \* "raci"
      <<"s", "t", "a", "t", "u", "s", " ", "u", "p", "d", "a", "t", "e">>   \* "status update"
    }
\* the needles of code_action_verbs (guardrails.py 119-136)
code_action_verbs ==
    {
      <<"i", "m", "p", "l", "e", "m", "e", "n", "t">>,   \* "implement"
      <<"c", "o", "d", "e">>,   \* "code"
      <<"w", "r", "i", "t", "e", " ", "c", "o", "d", "e">>,   \* "write code"
      <<"c", "h", "a", "n", "g", "e", " ", "c", "o", "d", "e">>,   \* "change code"
      <<"m", "o", "d", "i", "f", "y">>,   \* "modify"
      <<"e", "d", "i", "t">>,   \* "edit"
      <<"u", "p", "d", "a", "t", "e">>,   \* "update"
      <<"a", "d", "d">>,   \* "add"
      <<"r", "e", "m", "o", "v", "e">>,   \* "remove"
      <<"d", "e", "l", "e", "t", "e">>,   \* "delete"
      <<"c", "r", "e", "a", "t", "e">>,   \* "create"
      <<"f", "i", "x">>,   \* "fix"
      <<"d", "e", "b", "u", "g">>,   \* "debug"
      <<"r", "e", "f", "a", "c", "t", "o", "r">>,   \* "refactor"
      <<"o", "p", "t", "i", "m", "i", "z", "e">>,   \* "optimize"
      <<"m", "i", "g", "r", "a", "t", "e">>   \* "migrate"
    }
\* the needles of code_artifacts (guardrails.py 137-159)
code_artifacts ==
    {
      <<".", "p", "y">>,   \* ".py"
      <<".", "t", "s">>,   \* ".ts"
      <<".", "t", "s", "x">>,   \* ".tsx"
      <<".", "j", "s">>,   \* ".js"
      <<".", "j", "s", "x">>,   \* ".jsx"
      <<"f", "a", "s", "t", "a", "p", "i">>,   \* "fastapi"
      <<"r", "e", "a", "c", "t">>,   \* "react"
      <<"o", "p", "e", "n", "a", "i", " ", "a", "p", "i">>,   \* "openai api"
      <<"e", "n", "d", "p", "o", "i", "n", "t">>,   \* "endpoint"
      <<"/", "a", "p", "i">>,   \* "/api"
      <<"r", "o", "u", "t", "e", "r">>,   \* "router"
      <<"f", "u", "n", "c", "t", "i", "o", "n">>,   \* "function"
      <<"c", "l", "a", "s", "s">>,   \* "class"
      <<"f", "i", "l", "e", " ">>,   \* "file "
      <<"d", "i", "f", "f">>,   \* "diff"
      <<"p", "r">>,   \* "pr"
      <<"c", "o", "m", "m", "i", "t">>,   \* "commit"
      <<"s", "t", "a", "c", "k", " ", "t", "r", "a", "c", "e">>,   \* "stack trace"
      <<"t", "r", "a", "c", "e", "b", "a", "c", "k">>,   \* "traceback"
      <<"e", "x", "c", "e", "p", "t", "i", "o", "n">>,   \* "exception"
      <<"e", "r", "r", "o", "r", ":">>   \* "error:"
    }

\* ------------------------------------------------------------------------
\* services/routing/guardrails.py
\* ------------------------------------------------------------------------

RouteItem(agent_id, confidence, subtask) ==
    [agent_id |-> agent_id, confidence |-> confidence, subtask |-> subtask]

RouterRouteResponse(routes, needs_clarification, clarifying_questions, routing_rationale) ==
    [routes |-> routes,
     needs_clarification |-> needs_clarification,
     clarifying_questions |-> clarifying_questions,
     routing_rationale |-> routing_rationale]

GuardrailResult(response, changed) == [response |-> response, changed |-> changed]

\* _enabled_agent_ids without the test of the enabled flag
_enabled_agent_ids_registered(agents) == {a.agent_id : a \in agents}

_enabled_agent_ids(agents) == {a.agent_id : a \in {e \in agents : e.enabled}}

\* [q.strip() for q in questions if q and q.strip()]
stripped_questions(questions) ==
    LET kept(q) == q # <<>> /\ strip(q) # <<>>
        ks == SelectSeq(questions, kept)
    IN  [i \in 1..Len(ks) |-> strip(ks[i])]

\* clarification_response without the cap of two questions
clarification_response_uncapped(questions, rationale, routes) ==
    LET qs0 == stripped_questions(questions)
        qs == IF qs0 = <<>> THEN <<Q_FALLBACK_1, Q_FALLBACK_2>> ELSE qs0
    IN  RouterRouteResponse(prefix(routes, 1), TRUE, qs, Some(rationale))

clarification_response(questions, rationale, routes) ==
    LET qs0 == stripped_questions(questions)
        qs1 == IF Len(qs0) > 2 THEN prefix(qs0, 2) ELSE qs0
        qs == IF qs1 = <<>> THEN <<Q_FALLBACK_1, Q_FALLBACK_2>> ELSE qs1
    IN  RouterRouteResponse(prefix(routes, 1), TRUE, qs, Some(rationale))

_has_any(q, needles) == \E n \in needles : contains(q, n)

\* max that returns its first argument
max_first(a, b) == a

max(a, b) == IF a > b THEN a ELSE b

\* signal_flags without the "prefer projplan" adjustment
signal_flags_unadjusted(query) ==
    LET q == lower(query)
    IN  [has_code |-> _has_any(q, code_signals),
         has_plan |-> _has_any(q, plan_signals),
         has_code_action |-> _has_any(q, code_action_verbs),
         has_code_artifact |-> _has_any(q, code_artifacts)]

\* the four signal flags of a query, after the "prefer projplan" adjustment
signal_flags(query) ==
    LET q == lower(query)
        has_code0 == _has_any(q, code_signals)
        has_plan == _has_any(q, plan_signals)
        has_code_action == _has_any(q, code_action_verbs)
        has_code_artifact == _has_any(q, code_artifacts)
    IN  [has_code |->
             IF has_plan /\ has_code0 /\ ~(has_code_action /\ has_code_artifact)
                 THEN FALSE
                 ELSE has_code0,
         has_plan |-> has_plan,
         has_code_action |-> has_code_action,
         has_code_artifact |-> has_code_artifact]

\* apply_guardrails with the client selection tried before every other rule
apply_guardrails_selection_first(llm_response, query, request_selected_agent_id, agents) ==
    IF /\ request_selected_agent_id # None
       /\ request_selected_agent_id[1] \in _enabled_agent_ids(agents)
        THEN GuardrailResult(
                 RouterRouteResponse(
                     <<RouteItem(request_selected_agent_id[1], 95, query)>>,
                     FALSE, <<>>, Some(R_CLIENT_SELECTED)),
                 TRUE)
        ELSE GuardrailResult(
                 clarification_response(llm_response.clarifying_questions,
                                        R_CLARIFICATION_REQUIRED,
                                        prefix(llm_response.routes, 1)),
                 TRUE)

apply_guardrails(llm_response, query, request_selected_agent_id, agents) ==
    LET enabled_ids == _enabled_agent_ids(agents)
        f == signal_flags(query)
        routes == llm_response.routes
        rationale == llm_response.routing_rationale
        primary == routes[1]
        conf == IF primary.confidence < 0 THEN 0
                ELSE IF primary.confidence > 100 THEN 100
                ELSE primary.confidence
    IN  IF f.has_code /\ f.has_plan THEN
            GuardrailResult(
                clarification_response(<<Q_CONFLICT_1, Q_CONFLICT_2>>, R_CONFLICT,
                                       prefix(routes, 1)),
                TRUE)
        ELSE IF llm_response.needs_clarification THEN
            GuardrailResult(
                clarification_response(llm_response.clarifying_questions,
                                       or_default(rationale, R_CLARIFICATION_REQUIRED),
                                       prefix(routes, 1)),
                TRUE)
        ELSE IF request_selected_agent_id # None THEN
            LET wanted == request_selected_agent_id[1] IN
            IF wanted \notin enabled_ids THEN
                GuardrailResult(
                    clarification_response(
                        <<Q_SELECTED_PREFIX \o _value_str(wanted) \o Q_SELECTED_SUFFIX>>,
                        R_SELECTED_UNAVAILABLE, <<>>),
                    TRUE)
            ELSE
                GuardrailResult(
                    RouterRouteResponse(
                        <<RouteItem(wanted, 95,
                                    IF routes # <<>> THEN primary.subtask ELSE query)>>,
                        FALSE, <<>>,
                        Some(or_default(rationale, R_CLIENT_SELECTED))),
                    TRUE)
        ELSE IF routes = <<>> THEN
            GuardrailResult(
                clarification_response(<<Q_WHICH_AGENT>>,
                                       or_default(rationale, R_NO_ROUTES), <<>>),
                TRUE)
        ELSE IF primary.agent_id \notin enabled_ids THEN
            GuardrailResult(
                clarification_response(<<Q_NO_MATCH>>,
                                       R_UNKNOWN_PREFIX \o _value_str(primary.agent_id),
                                       <<>>),
                TRUE)
        ELSE IF f.has_code /\ primary.agent_id \in {"projplan", "planner"} THEN
            GuardrailResult(
                RouterRouteResponse(
                    <<RouteItem("codegen", max(primary.confidence, 95), primary.subtask)>>,
                    FALSE, <<>>, Some(R_OVERRIDE_CODEGEN)),
                TRUE)
        ELSE IF f.has_plan /\ primary.agent_id = "codegen" THEN
            GuardrailResult(
                RouterRouteResponse(
                    <<RouteItem("planner", max(primary.confidence, 95), primary.subtask)>>,
                    FALSE, <<>>, Some(R_OVERRIDE_PLANNER)),
                TRUE)
        ELSE
            GuardrailResult(
                RouterRouteResponse(
                    <<RouteItem(primary.agent_id, conf, primary.subtask)>>,
                    FALSE, <<>>, rationale),
                TRUE)

\* ------------------------------------------------------------------------
\* services/routing/hybrid_router.py
\* ------------------------------------------------------------------------

\* What the routing-decision source (route_with_llm) does: it returns a
\* validated decision, raises LLMRouterError, or raises something else.
LlmReturned(decision) == [kind |-> "returned", decision |-> decision]
LlmRouterError == [kind |-> "LLMRouterError"]
LlmException == [kind |-> "Exception"]

\* route_hybrid that answers a failure of the routing source with a default
\* route to codegen
route_hybrid_defaulting(request, force_deterministic, agents_all, llm) ==
    LET agents == {a \in agents_all : a.enabled} IN
    IF force_deterministic THEN
        IF request.selected_agent_id = None THEN
            [response |-> clarification_response(<<Q_FORCED_NEEDS_AGENT>>,
                                                 R_FORCED_NO_AGENT, <<>>),
             llm_called |-> FALSE]
        ELSE
            LET seeded == RouterRouteResponse(
                              <<RouteItem(request.selected_agent_id[1], 100, request.query)>>,
                              FALSE, <<>>, Some(R_FORCED_ROUTE))
            IN  [response |-> apply_guardrails(seeded, request.query,
                                               request.selected_agent_id, agents).response,
                 llm_called |-> FALSE]
    ELSE IF llm.kind \in {"LLMRouterError", "Exception"} THEN
        [response |-> RouterRouteResponse(<<RouteItem("codegen", 50, request.query)>>,
                                          FALSE, <<>>, Some(R_LLM_FAILED)),
         llm_called |-> TRUE]
    ELSE
        [response |-> apply_guardrails(llm.decision, request.query,
                                       request.selected_agent_id, agents).response,
         llm_called |-> TRUE]

\* route_hybrid that returns the seeded forced route without the guardrails
route_hybrid_forced_unguarded(request, force_deterministic, agents_all, llm) ==
    LET agents == {a \in agents_all : a.enabled} IN
    IF force_deterministic THEN
        IF request.selected_agent_id = None THEN
            [response |-> clarification_response(<<Q_FORCED_NEEDS_AGENT>>,
                                                 R_FORCED_NO_AGENT, <<>>),
             llm_called |-> FALSE]
        ELSE
            [response |-> RouterRouteResponse(
                              <<RouteItem(request.selected_agent_id[1], 100, request.query)>>,
                              FALSE, <<>>, Some(R_FORCED_ROUTE)),
             llm_called |-> FALSE]
    ELSE IF llm.kind = "LLMRouterError" THEN
        [response |-> clarification_response(<<Q_LLM_FAILED>>, R_LLM_FAILED, <<>>),
         llm_called |-> TRUE]
    ELSE IF llm.kind = "Exception" THEN
        [response |-> clarification_response(<<Q_UNEXPECTED>>, R_UNEXPECTED, <<>>),
         llm_called |-> TRUE]
    ELSE
        [response |-> apply_guardrails(llm.decision, request.query,
                                       request.selected_agent_id, agents).response,
         llm_called |-> TRUE]

\* request: [query, selected_agent_id]; llm is consulted only in auto mode.
\* The result records whether the source was called.
route_hybrid(request, force_deterministic, agents_all, llm) ==
    LET agents == {a \in agents_all : a.enabled} IN
    IF force_deterministic THEN
        IF request.selected_agent_id = None THEN
            [response |-> clarification_response(<<Q_FORCED_NEEDS_AGENT>>,
                                                 R_FORCED_NO_AGENT, <<>>),
             llm_called |-> FALSE]
        ELSE
            LET seeded == RouterRouteResponse(
                              <<RouteItem(request.selected_agent_id[1], 100, request.query)>>,
                              FALSE, <<>>, Some(R_FORCED_ROUTE))
            IN  [response |-> apply_guardrails(seeded, request.query,
                                               request.selected_agent_id, agents).response,
                 llm_called |-> FALSE]
    ELSE IF llm.kind = "LLMRouterError" THEN
        [response |-> clarification_response(<<Q_LLM_FAILED>>, R_LLM_FAILED, <<>>),
         llm_called |-> TRUE]
    ELSE IF llm.kind = "Exception" THEN
        [response |-> clarification_response(<<Q_UNEXPECTED>>, R_UNEXPECTED, <<>>),
         llm_called |-> TRUE]
    ELSE
        [response |-> apply_guardrails(llm.decision, request.query,
                                       request.selected_agent_id, agents).response,
         llm_called |-> TRUE]


\* ------------------------------------------------------------------------
\* services/persistence/file_store.py
\* Every operation loads the whole document, changes it and saves it; a
\* world w = [doc, now, uuid] is the document with the clock and the uuid
\* source.  The document holds JSON that was validated when it was written,
\* so model_dump / model_validate return the values they are given.
\* ------------------------------------------------------------------------

World(d, t, u) == [doc |-> d, now |-> t, uuid |-> u]

Chat(chat_id, title, created_at, updated_at) ==
    [chat_id |-> chat_id, title |-> title,
     created_at |-> created_at, updated_at |-> updated_at,
     routed_agent_id |-> None, pending_continuation |-> None]

Message(message_id, chat_id, role, content, created_at, routing_meta, artifacts, suggested_replies) ==
    [message_id |-> message_id, chat_id |-> chat_id, role |-> role,
     content |-> content, created_at |-> created_at,
     routing_meta |-> routing_meta, artifacts |-> artifacts,
     suggested_replies |-> suggested_replies]

RoutingMeta(agent_id, confidence, mode) ==
    [agent_id |-> agent_id, confidence |-> confidence, mode |-> mode]

\* a pending continuation that keeps the trimmed query
PendingContinuation_trimmed(agent_id, original_query, context_snapshot) ==
    [agent_id |-> agent_id, original_query |-> strip(original_query),
     context_snapshot |-> context_snapshot]

PendingContinuation(agent_id, original_query, context_snapshot) ==
    [agent_id |-> agent_id, original_query |-> original_query,
     context_snapshot |-> context_snapshot]

\* d[k] = v on a python dict
dict_set(d, k, v) == (k :> v) @@ d

\* d.pop(k, None)
dict_pop(d, k) == [x \in (DOMAIN d) \ {k} |-> d[x]]

create_chat(w, title) ==
    LET chat_id == w.uuid
        t == w.now + 1
        chat == Chat(chat_id, title, t, t)
        msgs == w.doc.messages_by_chat
    IN  [w |-> World([chats |-> dict_set(w.doc.chats, chat_id, chat),
                      messages_by_chat |->
                          IF chat_id \in DOMAIN msgs THEN msgs
                          ELSE dict_set(msgs, chat_id, <<>>)],
                     t, w.uuid + 1),
         chat |-> chat]

\* get_chat raises KeyError for an unknown id
has_chat(w, chat_id) == chat_id \in DOMAIN w.doc.chats

get_chat(w, chat_id) == w.doc.chats[chat_id]

delete_chat(w, chat_id) ==
    World([chats |-> dict_pop(w.doc.chats, chat_id),
           messages_by_chat |-> dict_pop(w.doc.messages_by_chat, chat_id)],
          w.now, w.uuid)

\* set_pending_continuation that only ever sets, and never clears
set_pending_continuation_keep(w, chat_id, pending) ==
    LET t == w.now + 1
        chat == [w.doc.chats[chat_id] EXCEPT
                     !.pending_continuation =
                         IF pending = None THEN @ ELSE pending,
                     !.updated_at = t]
    IN  World([w.doc EXCEPT !.chats = dict_set(w.doc.chats, chat_id, chat)], t, w.uuid)

set_pending_continuation(w, chat_id, pending) ==
    LET t == w.now + 1
        chat == [w.doc.chats[chat_id] EXCEPT !.pending_continuation = pending,
                                             !.updated_at = t]
    IN  World([w.doc EXCEPT !.chats = dict_set(w.doc.chats, chat_id, chat)], t, w.uuid)

set_routed_agent_id(w, chat_id, agent_id) ==
    LET t == w.now + 1
        chat == [w.doc.chats[chat_id] EXCEPT !.routed_agent_id = agent_id,
                                             !.updated_at = t]
    IN  World([w.doc EXCEPT !.chats = dict_set(w.doc.chats, chat_id, chat)], t, w.uuid)

list_messages(w, chat_id) ==
    IF chat_id \in DOMAIN w.doc.messages_by_chat
        THEN w.doc.messages_by_chat[chat_id]
        ELSE <<>>

\* append_message with the list operation a bug would use instead of append
append_message_front(w, message) ==
    LET t == w.now + 1
        c == message.chat_id
        old == list_messages(w, c)
        chat == [w.doc.chats[c] EXCEPT !.updated_at = t]
    IN  World([chats |-> dict_set(w.doc.chats, c, chat),
               messages_by_chat |->
                   dict_set(w.doc.messages_by_chat, c, <<message>> \o old)],
              t, w.uuid)

append_message(w, message) ==
    LET t == w.now + 1
        c == message.chat_id
        old == list_messages(w, c)
        chat == [w.doc.chats[c] EXCEPT !.updated_at = t]
    IN  World([chats |-> dict_set(w.doc.chats, c, chat),
               messages_by_chat |->
                   dict_set(w.doc.messages_by_chat, c, Append(old, message))],
              t, w.uuid)

create_message(w, chat_id, role, content, routing_meta, artifacts, suggested_replies) ==
    LET t == w.now + 1
        msg == Message(w.uuid, chat_id, role, content, t, routing_meta, artifacts,
                       suggested_replies)
    IN  append_message(World(w.doc, t, w.uuid + 1), msg)

\* ------------------------------------------------------------------------
\* services/agents/registry.py and services/agents/runner.py
\* ------------------------------------------------------------------------

Artifact(type, value) == [type |-> type, value |-> value]

AgentInvokeRequest(agent_id, task, context) ==
    [agent_id |-> agent_id, task |-> task, context |-> context]

AgentInvokeResponse(agent_id, status, artifacts, notes, clarifying_questions) ==
    [agent_id |-> agent_id, status |-> status, artifacts |-> artifacts,
     notes |-> notes, clarifying_questions |-> clarifying_questions]

registered(registry, agent_id) == \E e \in registry : e.agent_id = agent_id

get_agent(registry, agent_id) == CHOOSE e \in registry : e.agent_id = agent_id

\* The checks that load the agent, in the order the runner makes them.
LoadChecks ==
    <<"bad_entrypoint", "import_error", "symbol_not_found", "instantiate_error",
      "type_error", "agent_id_mismatch">>

\* handler_invoked: the handler's own invoke was called
Raised(code) == [code |-> code, response |-> None, handler_invoked |-> FALSE]
RaisedByHandler(code) == [code |-> code, response |-> None, handler_invoked |-> TRUE]
Returned(resp) == [code |-> "", response |-> Some(resp), handler_invoked |-> TRUE]

\* first_failing that reports the last of the failing load checks
last_failing(failing) ==
    LoadChecks[CHOOSE i \in 1..Len(LoadChecks) :
                   /\ LoadChecks[i] \in failing
                   /\ \A j \in (i + 1)..Len(LoadChecks) : LoadChecks[j] \notin failing]

\* env.failing: the load checks that fail for this agent; env.invoke: what the
\* handler's own invoke does ("raise", "raise_typed" or a response).
first_failing(failing) ==
    LoadChecks[CHOOSE i \in 1..Len(LoadChecks) :
                   /\ LoadChecks[i] \in failing
                   /\ \A j \in 1..(i - 1) : LoadChecks[j] \notin failing]

invoke_agent(agent_id, request, registry, env) ==
    IF request.agent_id # agent_id THEN Raised("bad_request")
    ELSE IF ~registered(registry, agent_id) THEN Raised("not_found")
    ELSE IF ~get_agent(registry, agent_id).enabled THEN Raised("disabled")
    ELSE IF env.failing # {} THEN Raised(first_failing(env.failing))
    ELSE IF env.invoke.kind = "raise" THEN RaisedByHandler("invoke_error")
    ELSE IF env.invoke.kind = "raise_typed" THEN RaisedByHandler(env.invoke.code)
    ELSE Returned(env.invoke.response)

\* the translation that answers every dispatch error with a server error
continuation_http_status_server_error(code) == 500

\* the HTTP status the auto-continue path translates an AgentInvokeError to
continuation_http_status(code) ==
    IF code = "not_found" THEN 404
    ELSE IF code \in {"disabled", "bad_request", "agent_id_mismatch"} THEN 400
    ELSE 500

\* the HTTP status the direct invoke endpoint translates an AgentInvokeError to
endpoint_http_status(code) ==
    IF code = "not_found" THEN 404
    ELSE IF code \in {"disabled", "bad_request", "agent_id_mismatch"} THEN 400
    ELSE 500

\* the HTTP status the fresh-route path translates an AgentInvokeError to
http_status(code) ==
    IF code = "not_found" THEN 404
    ELSE IF code \in {"disabled", "bad_request", "agent_id_mismatch"} THEN 400
    ELSE 500


\* ------------------------------------------------------------------------
\* api/v1/router.py
\* ------------------------------------------------------------------------

\* a response that does not report the chat id
RouterExecuteResponse_without_chat(route_response, agent_response, chat_id) ==
    [route_response |-> route_response, agent_response |-> agent_response,
     chat_id |-> None]

RouterExecuteResponse(route_response, agent_response, chat_id) ==
    [route_response |-> route_response, agent_response |-> agent_response,
     chat_id |-> chat_id]

\* What a request did.  status is the HTTP status; response is None when the
\* request raised.  before is the document the request found; context_after
\* is the request's context object once the handler is done with it.
\* source is what the routing-decision source did when it was consulted;
\* error is the code of the typed dispatch error the runner raised.
Outcome(req, before) ==
    [req |-> req, before |-> before, status |-> 200, path |-> "none",
     ensured_chat_id |-> None, created |-> <<>>, llm_called |-> FALSE,
     route_response |-> None, invoked |-> None, agent_response |-> None,
     response |-> None, history |-> None, context_after |-> req.context,
     source |-> None, error |-> None]

\* a chat allocation that stores the query as the first message of the new
\* chat
_ensure_chat_id_storing_query(w, chat_id, query) ==
    IF chat_id # None THEN
        IF has_chat(w, chat_id[1])
            THEN [w |-> w, status |-> 200, chat_id |-> chat_id, created |-> <<>>]
            ELSE [w |-> w, status |-> 404, chat_id |-> None, created |-> <<>>]
    ELSE
        LET title == prefix(IF query # <<>> THEN query ELSE NEW_CHAT_TITLE, TitleLimit)
            c == create_chat(w, title)
        IN  [w |-> create_message(c.w, c.chat.chat_id, "user", query, None, <<>>,
                                  None),
             status |-> 200, chat_id |-> Some(c.chat.chat_id),
             created |-> <<c.chat.chat_id>>]

_ensure_chat_id_for_persist(w, chat_id, query) ==
    IF chat_id # None THEN
        IF has_chat(w, chat_id[1])
            THEN [w |-> w, status |-> 200, chat_id |-> chat_id, created |-> <<>>]
            ELSE [w |-> w, status |-> 404, chat_id |-> None, created |-> <<>>]
    ELSE
        LET title == prefix(IF query # <<>> THEN query ELSE NEW_CHAT_TITLE, TitleLimit)
            c == create_chat(w, title)
        IN  [w |-> c.w, status |-> 200, chat_id |-> Some(c.chat.chat_id),
             created |-> <<c.chat.chat_id>>]

\* {**snapshot} then update(request context): the request's keys win
merge_context(snapshot, context) ==
    [k \in (DOMAIN snapshot) \cup (DOMAIN context) |->
        IF k \in DOMAIN context THEN context[k] ELSE snapshot[k]]

\* the combined task collapsed to the clarification answer
combined_task_answer_only(original_query, query) ==
    strip(query) \o NL

combined_task(original_query, query) ==
    LET original0 == strip(original_query)
        clarification == strip(query)
        original == IF original0 = <<>> THEN MISSING_ORIGINAL ELSE original0
    IN  strip(join(<<"\n", "\n">>,
                   <<ORIGINAL_HEADER \o original, ANSWER_HEADER \o clarification>>))
        \o NL

\* datetime.isoformat()
isoformat(t) == [iso |-> t]

history_entry(m) ==
    [role |-> m.role, content |-> m.content, created_at |-> isoformat(m.created_at),
     routing_meta |-> m.routing_meta]

\* The newest-first scan for the last artifacts.  found maps the keys found
\* so far to their values; an artifact type sets its key only once.
ArtifactKey ==
    [project_plan |-> "last_project_plan", risks |-> "last_risks",
     patch |-> "last_patch", snippet |-> "last_snippet", notes |-> "last_notes"]

RECURSIVE scan_artifacts(_, _)
scan_artifacts(arts, found) ==
    IF arts = <<>> THEN found
    ELSE LET a == Head(arts)
             hit == /\ a.type \in DOMAIN ArtifactKey
                    /\ ArtifactKey[a.type] \notin DOMAIN found
         IN  scan_artifacts(Tail(arts),
                            IF hit THEN dict_set(found, ArtifactKey[a.type], a.value)
                            ELSE found)

scan_complete(found) ==
    /\ {"last_project_plan", "last_risks", "last_patch"} \subseteq DOMAIN found
    /\ ("last_snippet" \in DOMAIN found \/ "last_notes" \in DOMAIN found)

RECURSIVE scan_messages(_, _, _)
scan_messages(msgs, i, found) ==
    IF i = 0 THEN found
    ELSE LET f == scan_artifacts(msgs[i].artifacts, found)
         IN  IF msgs[i].artifacts # <<>> /\ scan_complete(f) THEN f
             ELSE scan_messages(msgs, i - 1, f)

\* the chat_history list: msgs[-20:]
chat_history_of(msgs) ==
    LET recent == suffix(msgs, HistoryLimit)
    IN  [i \in 1..Len(recent) |-> history_entry(recent[i])]

\* enriched.setdefault(k, v) for every key of extra
setdefault_all(base, extra) ==
    [k \in (DOMAIN base) \cup (DOMAIN extra) |->
        IF k \in DOMAIN base THEN base[k] ELSE extra[k]]

\* enrichment that assigns instead of setdefault, on the caller's own dict
_augment_context_overwriting(w, chat_id, base_context) ==
    IF ~has_chat(w, chat_id)
        THEN [context |-> base_context, base_after |-> base_context, history |-> None]
    ELSE LET msgs == list_messages(w, chat_id)
             history == chat_history_of(msgs)
             found == scan_messages(msgs, Len(msgs), <<>>)
             extra == dict_set(found, "chat_history", history)
             enriched == setdefault_all(extra, base_context)
         IN  [context |-> enriched, base_after |-> enriched, history |-> Some(history)]

\* The result, the caller's dict afterwards (dict(base_context) copies it,
\* so it is left as it was) and the derived history.
_augment_context_with_chat_memory(w, chat_id, base_context) ==
    IF ~has_chat(w, chat_id)
        THEN [context |-> base_context, base_after |-> base_context, history |-> None]
    ELSE LET msgs == list_messages(w, chat_id)
             history == chat_history_of(msgs)
             found == scan_messages(msgs, Len(msgs), <<>>)
             extra == dict_set(found, "chat_history", history)
             enriched == setdefault_all(base_context, extra)
         IN  [context |-> enriched, base_after |-> base_context,
              history |-> Some(history)]

DIGITS == <<"0", "1", "2", "3", "4", "5", "6", "7", "8", "9">>

\* f"{confidence:.2f}" of a confidence in hundredths
format_confidence(c) ==
    <<DIGITS[(c \div 100) + 1], ".", DIGITS[((c \div 10) % 10) + 1], DIGITS[(c % 10) + 1]>>

ReporterHeadings == {H_KEY_POINTS, H_WHAT_CHANGED, H_WHY, H_DESIGN, H_TESTS}

\* assistant_content that always wraps the notes of another agent than
\* planner into the template
assistant_content_wrapped(primary, notes) ==
    join(NL, <<H_KEY_POINTS, join(NL, notes), <<>>,
               H_WHAT_CHANGED, S_NOT_APPLICABLE, <<>>,
               H_WHY, S_NOT_APPLICABLE, <<>>,
               H_DESIGN, S_NOT_APPLICABLE, <<>>,
               H_TESTS, S_NOT_APPLICABLE>>)

\* the content of the assistant message of a resolved turn
assistant_content(primary, notes) ==
    LET summary == S_ROUTED_TO \o _value_str(primary.agent_id) \o S_CONFIDENCE
                   \o format_confidence(primary.confidence) \o S_CLOSE
        raw_content == IF notes # <<>> THEN join(NL, notes) ELSE summary
        body == IF strip(raw_content) # <<>> THEN strip(raw_content) ELSE S_NOT_APPLICABLE
    IN  IF primary.agent_id = "planner" THEN
            IF strip(raw_content) # <<>> THEN strip(raw_content) ELSE S_GENERATED_PLAN
        ELSE IF \E h \in ReporterHeadings : contains(raw_content, h) THEN raw_content
        ELSE join(NL, <<H_KEY_POINTS, body, <<>>,
                        H_WHAT_CHANGED, S_NOT_APPLICABLE, <<>>,
                        H_WHY, S_NOT_APPLICABLE, <<>>,
                        H_DESIGN, S_NOT_APPLICABLE, <<>>,
                        H_TESTS, S_NOT_APPLICABLE>>)

\* "\n".join(questions) or "Please clarify your request."
clarifying_text(questions) ==
    IF join(NL, questions) # <<>> THEN join(NL, questions) ELSE PLEASE_CLARIFY


\* the request of a continuation turn taking the agent the client forces
continuation_request_forced(pending, req) ==
    AgentInvokeRequest(IF req.mode = "forced" /\ req.forced_agent_id # None
                           THEN req.forced_agent_id[1]
                           ELSE pending.agent_id,
                       combined_task(pending.original_query, req.query),
                       merge_context(pending.context_snapshot, req.context))

\* lines 107-146: the request the pending agent is invoked with
continuation_request(pending, req) ==
    AgentInvokeRequest(pending.agent_id,
                       combined_task(pending.original_query, req.query),
                       merge_context(pending.context_snapshot, req.context))

\* the auto-continue path persisting the user message before it invokes the
\* agent
execute_continuation_user_first(w, req, ensured, pending, registry, env, out0) ==
    LET chat_id == ensured[1]
        request == continuation_request(pending, req)
        r == invoke_agent(pending.agent_id, request, registry, env)
        out1 == [out0 EXCEPT !.invoked = Some(request)]
        w2 == create_message(w, chat_id, "user", req.query, None, <<>>, None)
    IN  IF r.code # "" THEN
            [w |-> w2,
             out |-> [out1 EXCEPT !.status = continuation_http_status(r.code),
                                  !.error = Some(r.code),
                                  !.path = "continuation_error"]]
        ELSE
            LET agent_response == r.response[1]
                routing_meta == RoutingMeta(pending.agent_id, 100, "forced")
                content == IF agent_response.notes # <<>>
                               THEN join(NL, agent_response.notes)
                               ELSE NO_NOTES
                w3 == create_message(w2, chat_id, "assistant", content,
                                     Some(routing_meta), agent_response.artifacts, None)
                w4 == set_pending_continuation(w3, chat_id, None)
                route_response == RouterRouteResponse(
                                      <<RouteItem(pending.agent_id, 100, S_CONTINUATION)>>,
                                      FALSE, <<>>, Some(R_AUTO_CONTINUED))
            IN  [w |-> w4,
                 out |-> [out1 EXCEPT
                     !.path = "continuation",
                     !.route_response = Some(route_response),
                     !.agent_response = r.response,
                     !.response = Some(RouterExecuteResponse(route_response, r.response,
                                                             ensured))]]

\* the auto-continue path (lines 105-200): chat holds pending
execute_continuation(w, req, ensured, pending, registry, env, out0) ==
    LET chat_id == ensured[1]
        request == continuation_request(pending, req)
        r == invoke_agent(pending.agent_id, request, registry, env)
        out1 == [out0 EXCEPT !.invoked = Some(request)]
    IN  IF r.code # "" THEN
            [w |-> w,
             out |-> [out1 EXCEPT !.status = continuation_http_status(r.code),
                                  !.error = Some(r.code),
                                  !.path = "continuation_error"]]
        ELSE
            LET agent_response == r.response[1]
                w2 == create_message(w, chat_id, "user", req.query, None, <<>>, None)
                routing_meta == RoutingMeta(pending.agent_id, 100, "forced")
                content == IF agent_response.notes # <<>>
                               THEN join(NL, agent_response.notes)
                               ELSE NO_NOTES
                w3 == create_message(w2, chat_id, "assistant", content,
                                     Some(routing_meta), agent_response.artifacts, None)
                w4 == set_pending_continuation(w3, chat_id, None)
                route_response == RouterRouteResponse(
                                      <<RouteItem(pending.agent_id, 100, S_CONTINUATION)>>,
                                      FALSE, <<>>, Some(R_AUTO_CONTINUED))
            IN  [w |-> w4,
                 out |-> [out1 EXCEPT
                     !.path = "continuation",
                     !.route_response = Some(route_response),
                     !.agent_response = r.response,
                     !.response = Some(RouterExecuteResponse(route_response, r.response,
                                                             ensured))]]

\* the clarification path storing the questions without the user message
execute_clarification_questions_only(w, req, ensured, route_response, out0) ==
    LET routes == route_response.routes
        questions == route_response.clarifying_questions
        chat_id == ensured[1]
        routing_meta == IF routes # <<>>
                            THEN Some(RoutingMeta(routes[1].agent_id,
                                                  routes[1].confidence, "auto"))
                            ELSE None
        w3 == create_message(w, chat_id, "assistant", clarifying_text(questions),
                             routing_meta, <<>>, Some(questions))
        w4 == IF routes # <<>>
                  THEN set_routed_agent_id(w3, chat_id, Some(routes[1].agent_id))
                  ELSE w3
        w5 == IF routes # <<>>
                  THEN set_pending_continuation(
                           w4, chat_id,
                           Some(PendingContinuation(routes[1].agent_id, req.query,
                                                    req.context)))
                  ELSE w4
    IN  [w |-> IF req.persist /\ ensured # None THEN w5 ELSE w,
         out |-> [out0 EXCEPT
             !.path = "route_clarification",
             !.response = Some(RouterExecuteResponse(route_response, None, ensured))]]

\* the clarification path (lines 223-282): the route decision asks
execute_clarification(w, req, ensured, route_response, out0) ==
    LET routes == route_response.routes
        questions == route_response.clarifying_questions
        chat_id == ensured[1]
        w2 == create_message(w, chat_id, "user", req.query, None, <<>>, None)
        routing_meta == IF routes # <<>>
                            THEN Some(RoutingMeta(routes[1].agent_id,
                                                  routes[1].confidence, "auto"))
                            ELSE None
        w3 == create_message(w2, chat_id, "assistant", clarifying_text(questions),
                             routing_meta, <<>>, Some(questions))
        w4 == IF routes # <<>>
                  THEN set_routed_agent_id(w3, chat_id, Some(routes[1].agent_id))
                  ELSE w3
        w5 == IF routes # <<>>
                  THEN set_pending_continuation(
                           w4, chat_id,
                           Some(PendingContinuation(routes[1].agent_id, req.query,
                                                    req.context)))
                  ELSE w4
    IN  [w |-> IF req.persist /\ ensured # None THEN w5 ELSE w,
         out |-> [out0 EXCEPT
             !.path = "route_clarification",
             !.response = Some(RouterExecuteResponse(route_response, None, ensured))]]

\* lines 403-552: persistence of a routed turn and the final return
execute_persist(w, req, ensured, route_response, agent_response, out0) ==
    LET routes == route_response.routes
        primary == routes[1]
        e == IF ensured # None
                 THEN [w |-> w, status |-> 200, chat_id |-> ensured, created |-> <<>>]
                 ELSE _ensure_chat_id_for_persist(w, req.chat_id, req.query)
        chat_id == e.chat_id[1]
        out1 == [out0 EXCEPT !.created = out0.created \o e.created]
        w2 == create_message(e.w, chat_id, "user", req.query, None, <<>>, None)
    IN  IF ~req.persist THEN
            [w |-> w,
             out |-> [out0 EXCEPT
                 !.path = IF agent_response # None THEN "resolved" ELSE "unrouted",
                 !.response = Some(RouterExecuteResponse(route_response, agent_response,
                                                         ensured))]]
        ELSE IF e.status # 200 THEN
            [w |-> w, out |-> [out0 EXCEPT !.status = e.status, !.path = "chat_not_found"]]
        ELSE IF /\ agent_response # None
                /\ agent_response[1].status = "needs_clarification"
                /\ routes # <<>> THEN
            LET resp == agent_response[1]
                w3 == set_routed_agent_id(w2, chat_id, Some(primary.agent_id))
                w4 == create_message(w3, chat_id, "assistant",
                                     clarifying_text(resp.clarifying_questions),
                                     Some(RoutingMeta(primary.agent_id, primary.confidence,
                                                      "auto")),
                                     resp.artifacts, Some(resp.clarifying_questions))
                w5 == set_pending_continuation(
                          w4, chat_id,
                          Some(PendingContinuation(primary.agent_id, req.query,
                                                   req.context)))
                agent_route_response ==
                    RouterRouteResponse(routes, TRUE, resp.clarifying_questions,
                                        Some(R_AGENT_CLARIFY))
            IN  [w |-> w5,
                 out |-> [out1 EXCEPT
                     !.path = "agent_clarification",
                     !.response = Some(RouterExecuteResponse(agent_route_response,
                                                             agent_response,
                                                             e.chat_id))]]
        ELSE IF agent_response # None /\ routes # <<>> THEN
            LET resp == agent_response[1]
                w3 == set_routed_agent_id(w2, chat_id, Some(primary.agent_id))
                routing_meta == RoutingMeta(primary.agent_id, primary.confidence,
                                            IF req.mode = "forced" THEN "forced"
                                            ELSE "auto")
                w4 == create_message(w3, chat_id, "assistant",
                                     assistant_content(primary, resp.notes),
                                     Some(routing_meta), resp.artifacts, None)
            IN  [w |-> w4,
                 out |-> [out1 EXCEPT
                     !.path = "resolved",
                     !.response = Some(RouterExecuteResponse(route_response,
                                                             agent_response, ensured))]]
        ELSE
            [w |-> w2,
             out |-> [out1 EXCEPT
                 !.path = "unrouted",
                 !.response = Some(RouterExecuteResponse(route_response, None, ensured))]]

\* lines 215-552: with the route decision rh, clarify or invoke and persist
execute_routed(w, req, ensured, registry, env, out0, rh) ==
    LET route_response == rh.response
        routes == route_response.routes
        out1 == [out0 EXCEPT !.llm_called = rh.llm_called,
                             !.route_response = Some(route_response)]
        chat_id_for_mem == IF ensured # None THEN ensured ELSE req.chat_id
        aug == IF chat_id_for_mem # None
                   THEN _augment_context_with_chat_memory(w, chat_id_for_mem[1],
                                                          req.context)
                   ELSE [context |-> req.context, base_after |-> req.context,
                         history |-> None]
        request == AgentInvokeRequest(routes[1].agent_id, req.query, aug.context)
        r == invoke_agent(routes[1].agent_id, request, registry, env)
        out2 == [out1 EXCEPT !.invoked = Some(request),
                             !.history = aug.history,
                             !.context_after = aug.base_after]
    IN  IF route_response.needs_clarification THEN
            execute_clarification(w, req, ensured, route_response, out1)
        ELSE IF routes = <<>> THEN
            execute_persist(w, req, ensured, route_response, None, out1)
        ELSE IF r.code # "" THEN
            [w |-> w,
             out |-> [out2 EXCEPT !.status = http_status(r.code),
                                  !.error = Some(r.code),
                                  !.path = "invoke_error"]]
        ELSE
            execute_persist(w, req, ensured, route_response, r.response, out2)

\* the fresh path allocating a chat for a request that did not ask for
\* persistence
execute_fresh_allocating(w, req, ensured, registry, llm, env, out0) ==
    LET e == IF ensured # None
                 THEN [w |-> w, chat_id |-> ensured]
                 ELSE [w |-> create_chat(w, NEW_CHAT_TITLE).w,
                       chat_id |-> Some(w.uuid)]
    IN  execute_routed(e.w, req, e.chat_id, registry, env,
                       [out0 EXCEPT !.source = IF req.mode = "forced" THEN None
                                               ELSE Some(llm.kind)],
                       route_hybrid([query |-> req.query,
                                     selected_agent_id |->
                                         IF req.mode = "forced"
                                             THEN req.forced_agent_id
                                             ELSE None],
                                    req.mode = "forced", registry, llm))

\* lines 202-552: route, then clarify or invoke and persist
execute_fresh(w, req, ensured, registry, llm, env, out0) ==
    execute_routed(w, req, ensured, registry, env,
                   [out0 EXCEPT !.source = IF req.mode = "forced" THEN None
                                           ELSE Some(llm.kind)],
                   route_hybrid([query |-> req.query,
                                 selected_agent_id |->
                                     IF req.mode = "forced" THEN req.forced_agent_id
                                     ELSE None],
                                req.mode = "forced", registry, llm))

\* execute without the persist gate on the auto-continue path
execute_continue_unpersisted(w0, req, registry, llm, env) ==
    LET e == IF req.persist
                 THEN _ensure_chat_id_for_persist(w0, req.chat_id, req.query)
                 ELSE [w |-> w0, status |-> 200, chat_id |-> req.chat_id,
                       created |-> <<>>]
        out0 == [Outcome(req, w0.doc) EXCEPT !.ensured_chat_id = e.chat_id,
                                             !.created = e.created]
        pending == IF e.chat_id # None /\ has_chat(e.w, e.chat_id[1])
                       THEN get_chat(e.w, e.chat_id[1]).pending_continuation
                       ELSE None
    IN  IF e.status # 200 THEN
            [w |-> w0, out |-> [out0 EXCEPT !.status = e.status,
                                            !.path = "chat_not_found"]]
        ELSE IF pending # None THEN
            execute_continuation(e.w, req, e.chat_id, pending[1], registry, env, out0)
        ELSE
            execute_fresh(e.w, req, e.chat_id, registry, llm, env, out0)

\* POST /router/execute
execute(w0, req, registry, llm, env) ==
    LET e == IF req.persist
                 THEN _ensure_chat_id_for_persist(w0, req.chat_id, req.query)
                 ELSE [w |-> w0, status |-> 200, chat_id |-> None, created |-> <<>>]
        out0 == [Outcome(req, w0.doc) EXCEPT !.ensured_chat_id = e.chat_id,
                                             !.created = e.created]
        pending == IF req.persist /\ e.chat_id # None
                       THEN get_chat(e.w, e.chat_id[1]).pending_continuation
                       ELSE None
    IN  IF e.status # 200 THEN
            [w |-> w0, out |-> [out0 EXCEPT !.status = e.status,
                                            !.path = "chat_not_found"]]
        ELSE IF pending # None THEN
            execute_continuation(e.w, req, e.chat_id, pending[1], registry, env, out0)
        ELSE
            execute_fresh(e.w, req, e.chat_id, registry, llm, env, out0)


\* ------------------------------------------------------------------------
\* services/routing/qna_intent.py and api/v1/agents.py
\* ------------------------------------------------------------------------

\* the prefixes of _QNA_STARTERS (qna_intent.py 13-24)
_QNA_STARTERS ==
    {
      <<"w", "h", "a", "t", " ", "i", "s", " ">>,   \* "what is "
      <<"w", "h", "a", "t", "'", "s", " ">>,   \* "what's "
      <<"w", "h", "a", "t", "s", " ">>,   \* "whats "
      <<"e", "x", "p", "l", "a", "i", "n", " ">>,   \* "explain "
      <<"d", "e", "f", "i", "n", "e", " ">>,   \* "define "
      <<"m", "e", "a", "n", "i", "n", "g", " ", "o", "f", " ">>,   \* "meaning of "
      <<"h", "o", "w", " ", "d", "o", "e", "s", " ">>,   \* "how does "
      <<"w", "h", "y", " ", "d", "o", "e", "s", " ">>,   \* "why does "
      <<"d", "i", "f", "f", "e", "r", "e", "n", "c", "e", " ", "b", "e", "t", "w", "e", "e", "n", " ">>,   \* "difference between "
      <<"c", "o", "m", "p", "a", "r", "e", " ">>   \* "compare "
    }
\* the needles of code_signals (qna_intent.py 48-75)
qna_code_signals ==
    {
      <<"s", "t", "a", "c", "k", " ", "t", "r", "a", "c", "e">>,   \* "stack trace"
      <<"t", "r", "a", "c", "e", "b", "a", "c", "k">>,   \* "traceback"
      <<"e", "x", "c", "e", "p", "t", "i", "o", "n">>,   \* "exception"
      <<"e", "r", "r", "o", "r">>,   \* "error"
      <<"b", "u", "g">>,   \* "bug"
      <<"d", "e", "b", "u", "g">>,   \* "debug"
      <<"f", "i", "x">>,   \* "fix"
      <<"r", "e", "f", "a", "c", "t", "o", "r">>,   \* "refactor"
      <<"p", "a", "t", "c", "h">>,   \* "patch"
      <<"u", "n", "i", "t", " ", "t", "e", "s", "t">>,   \* "unit test"
      <<"f", "a", "i", "l", "i", "n", "g", " ", "t", "e", "s", "t">>,   \* "failing test"
      <<"c", "o", "m", "p", "i", "l", "e">>,   \* "compile"
      <<"b", "u", "i", "l", "d">>,   \* "build"
      <<".", "p", "y">>,   \* ".py"
      <<".", "t", "s">>,   \* ".ts"
      <<".", "t", "s", "x">>,   \* ".tsx"
      <<".", "j", "s">>,   \* ".js"
      <<".", "j", "s", "x">>,   \* ".jsx"
      <<"d", "i", "f", "f">>,   \* "diff"
      <<"p", "r">>,   \* "pr"
      <<"c", "o", "m", "m", "i", "t">>,   \* "commit"
      <<"f", "i", "l", "e", " ">>,   \* "file "
      <<"f", "u", "n", "c", "t", "i", "o", "n">>,   \* "function"
      <<"c", "l", "a", "s", "s", " ">>,   \* "class "
      <<"/", "a", "p", "i">>,   \* "/api"
      <<"e", "n", "d", "p", "o", "i", "n", "t">>   \* "endpoint"
    }
\* the needles of plan_signals (qna_intent.py 79-88)
qna_plan_signals ==
    {
      <<"p", "r", "o", "j", "e", "c", "t", " ", "p", "l", "a", "n">>,   \* "project plan"
      <<"e", "x", "e", "c", "u", "t", "i", "o", "n", " ", "p", "l", "a", "n">>,   \* "execution plan"
      <<"m", "v", "p", " ", "p", "l", "a", "n">>,   \* "mvp plan"
      <<"r", "o", "a", "d", "m", "a", "p">>,   \* "roadmap"
      <<"t", "i", "m", "e", "l", "i", "n", "e">>,   \* "timeline"
      <<"m", "i", "l", "e", "s", "t", "o", "n", "e">>,   \* "milestone"
      <<"r", "e", "q", "u", "i", "r", "e", "m", "e", "n", "t", "s">>,   \* "requirements"
      <<"d", "e", "p", "e", "n", "d", "e", "n", "c", "i", "e", "s">>   \* "dependencies"
    }

QnaIntent(is_qna, confidence) == [is_qna |-> is_qna, confidence |-> confidence]

\* len([w for w in q.split() if w])
word_count(q) ==
    Cardinality({i \in 1..Len(q) :
                    /\ q[i] \notin WHITESPACE
                    /\ (i = 1 \/ q[i - 1] \in WHITESPACE)})

detect_lightweight_qna(task, context) ==
    LET q == lower(strip(task)) IN
    IF q = <<>> THEN QnaIntent(FALSE, 0)
    ELSE IF \E k \in {"files", "goal", "diff", "patch", "selected_text"} :
                k \in DOMAIN context
        THEN QnaIntent(FALSE, 10)
    ELSE IF _has_any(q, qna_code_signals) THEN QnaIntent(FALSE, 5)
    ELSE IF _has_any(q, qna_plan_signals) THEN QnaIntent(FALSE, 5)
    ELSE IF ~(\/ q[Len(q)] = "?"
              \/ \E p \in _QNA_STARTERS : Len(p) <= Len(q) /\ prefix(q, Len(p)) = p)
        THEN QnaIntent(FALSE, 20)
    ELSE IF word_count(q) > 18 THEN QnaIntent(FALSE, 40)
    ELSE QnaIntent(TRUE, 85)

AgentInvokeDirectRequest(agent_id, task, context, chat_id, persist) ==
    [agent_id |-> agent_id, task |-> task, context |-> context,
     chat_id |-> chat_id, persist |-> persist]

\* the copy of _augment_context_with_chat_memory in api/v1/agents.py
agents_augment_context_with_chat_memory(w, chat_id, base_context) ==
    _augment_context_with_chat_memory(w, chat_id, base_context).context

\* an Outcome for a handler other than execute
IdleOutcome(before) ==
    Outcome([query |-> <<>>, chat_id |-> None, context |-> <<>>, mode |-> "auto",
             forced_agent_id |-> None, persist |-> FALSE], before)

\* POST /agents/{agent_id}/invoke
invoke_agent_endpoint(w, agent_id, request, registry, env) ==
    LET ctx == IF request.chat_id # None
                   THEN agents_augment_context_with_chat_memory(
                            w, request.chat_id[1], request.context)
                   ELSE request.context
        intent == detect_lightweight_qna(request.task, ctx)
        effective_agent_id == IF /\ agent_id = "codegen"
                                 /\ intent.is_qna
                                 /\ intent.confidence >= 75
                                  THEN "chatwriter"
                                  ELSE agent_id
        invoked == AgentInvokeRequest(effective_agent_id, request.task, ctx)
        r == invoke_agent(effective_agent_id, invoked, registry, env)
        out0 == [IdleOutcome(w.doc) EXCEPT !.path = "agent_invoke",
                                           !.invoked = Some(invoked)]
    IN  IF r.code # "" THEN
            [w |-> w,
             out |-> [out0 EXCEPT !.status = endpoint_http_status(r.code),
                                  !.error = Some(r.code),
                                  !.path = "agent_invoke_error"]]
        ELSE IF request.persist /\ request.chat_id # None THEN
            IF ~has_chat(w, request.chat_id[1]) THEN
                [w |-> w,
                 out |-> [out0 EXCEPT !.status = 404,
                                      !.path = "agent_invoke_chat_not_found"]]
            ELSE
                LET agent_response == r.response[1]
                    w2 == create_message(w, request.chat_id[1], "user", request.task,
                                         None, <<>>, None)
                    content == IF agent_response.notes # <<>>
                                   THEN join(NL, agent_response.notes)
                                   ELSE NO_NOTES
                    w3 == create_message(
                              w2, request.chat_id[1], "assistant", content,
                              Some(RoutingMeta(effective_agent_id, 100, "forced")),
                              agent_response.artifacts, None)
                IN  [w |-> w3, out |-> [out0 EXCEPT !.agent_response = r.response]]
        ELSE
            [w |-> w, out |-> [out0 EXCEPT !.agent_response = r.response]]

\* ------------------------------------------------------------------------
\* python's re and str operations used by the codegen agent
\* ------------------------------------------------------------------------

\* \w of an ASCII text
WORD_CHARS ==
    {LOWERCASE[i] : i \in 1..26} \cup {UPPERCASE[i] : i \in 1..26}
        \cup {"0", "1", "2", "3", "4", "5", "6", "7", "8", "9", "_"}

\* s[i] is a word character; positions outside the text are not
is_word(s, i) == i >= 1 /\ i <= Len(s) /\ s[i] \in WORD_CHARS

\* \b just before s[i]: exactly one of s[i-1], s[i] is a word character
word_boundary(s, i) == is_word(s, i - 1) # is_word(s, i)

\* the text starts at s[i] or s[i-1] is a newline
at_bol(s, i) == i = 1 \/ (i >= 2 /\ i <= Len(s) + 1 /\ s[i - 1] = "\n")

\* $ under re.MULTILINE: the text ends before s[i] or s[i] is a newline
at_eol(s, i) == i = Len(s) + 1 \/ (i >= 1 /\ i <= Len(s) /\ s[i] = "\n")

\* the literal lit is in s from s[i] on; s.startswith(lit) is lit_at(s, 1, lit)
lit_at(s, i, lit) ==
    /\ i >= 1
    /\ i + Len(lit) - 1 <= Len(s)
    /\ SubSeq(s, i, i + Len(lit) - 1) = lit

\* s.endswith(lit)
endswith(s, lit) == lit_at(s, Len(s) - Len(lit) + 1, lit)

\* the position after the longest run of \s from s[i] on
RECURSIVE skip_space(_, _)
skip_space(s, i) ==
    IF i <= Len(s) /\ s[i] \in WHITESPACE THEN skip_space(s, i + 1) ELSE i

\* the position after the longest run of \S from s[i] on
RECURSIVE skip_nonspace(_, _)
skip_nonspace(s, i) ==
    IF i <= Len(s) /\ s[i] \notin WHITESPACE THEN skip_nonspace(s, i + 1) ELSE i

\* str.splitlines(): a line ends at "\n", "\r" or "\r\n", and a text that
\* ends with a line end has no empty last line.  line_ends are the positions
\* of the last character of each line end, line_starts those of the first
\* character of each line.
line_ends(s) ==
    {i \in 1..Len(s) :
         \/ s[i] = "\n"
         \/ s[i] = "\r" /\ ~(i < Len(s) /\ s[i + 1] = "\n")}

line_starts(s) ==
    {p \in 1..Len(s) : p = 1 \/ (p - 1) \in line_ends(s)}

\* the line that starts at s[p], without its line end
line_at(s, p) ==
    LET after == {e \in line_ends(s) : e >= p}
        e == IF after = {} THEN Len(s) + 1
             ELSE CHOOSE x \in after : \A y \in after : x <= y
    IN  IF e <= Len(s) /\ s[e] = "\n" /\ e - 1 >= p /\ s[e - 1] = "\r"
            THEN SubSeq(s, p, e - 2)
            ELSE SubSeq(s, p, e - 1)

splitlines(s) ==
    [k \in 1..Cardinality(line_starts(s)) |->
        line_at(s, CHOOSE p \in line_starts(s) :
                       Cardinality({q \in line_starts(s) : q <= p}) = k)]

\* s.replace("\r\n", "\n")
RECURSIVE replace_crlf(_)
replace_crlf(s) ==
    IF s = <<>> THEN <<>>
    ELSE IF Len(s) >= 2 /\ s[1] = "\r" /\ s[2] = "\n"
        THEN <<"\n">> \o replace_crlf(SubSeq(s, 3, Len(s)))
    ELSE <<s[1]>> \o replace_crlf(Tail(s))

\* s.lstrip("\n")
RECURSIVE lstrip_newlines(_)
lstrip_newlines(s) ==
    IF s # <<>> /\ Head(s) = "\n" THEN lstrip_newlines(Tail(s)) ELSE s

\* str(n) of a small natural number
RECURSIVE str_int(_)
str_int(n) ==
    IF n < 10 THEN <<DIGITS[n + 1]>>
    ELSE str_int(n \div 10) \o <<DIGITS[(n % 10) + 1]>>

\* any(k in text for k in needles)
any_in(text, needles) == \E k \in needles : contains(text, k)

\* ------------------------------------------------------------------------
\* services/agents/codegen/steps/snippet.py
\* ------------------------------------------------------------------------

SnippetFile(path, content) == [path |-> path, content |-> content]

SnippetResult(files, is_chat_only, text) ==
    [files |-> files, is_chat_only |-> is_chat_only, text |-> text]

\* the longest run of \s from s[g] on that ends where $ matches, if any
space_to_eol(s, g) == {e \in g..skip_space(s, g) : at_eol(s, e)}

max_of(S) == CHOOSE e \in S : \A f \in S : f <= e

min_of(S) == CHOOSE e \in S : \A f \in S : e <= f

\* _FILE_RE, ^//\s*File:\s+(.+?)\s*$ under re.MULTILINE, matched at s[i] of a
\* stripped text: the path group is lazy and the space after it is greedy
file_re_match(s, i) ==
    LET b == skip_space(s, i + 2)
        c == b + 5
        d == skip_space(s, c)
        line_end == min_of({e \in d..(Len(s) + 1) : at_eol(s, e)})
        g == min_of({e \in (d + 1)..line_end : space_to_eol(s, e) # {}})
    IN  IF /\ at_bol(s, i)
           /\ lit_at(s, i, <<"/", "/">>)
           /\ lit_at(s, b, <<"F", "i", "l", "e", ":">>)
           /\ d > c
           /\ d <= Len(s)
           /\ s[d] # "\n"
        THEN [ok |-> TRUE, start |-> i, path |-> SubSeq(s, d, g - 1),
              end |-> max_of(space_to_eol(s, g))]
        ELSE [ok |-> FALSE]

\* list(_FILE_RE.finditer(s)) from s[i] on
RECURSIVE file_matches(_, _)
file_matches(s, i) ==
    IF i > Len(s) THEN <<>>
    ELSE LET m == file_re_match(s, i)
         IN  IF m.ok THEN <<m>> \o file_matches(s, m.end)
             ELSE file_matches(s, i + 1)

\* the block of the k-th marker: up to the next marker or the end of the text
file_block(s, matches, k) ==
    LET stop == IF k < Len(matches) THEN matches[k + 1].start - 1 ELSE Len(s)
        content == lstrip_newlines(SubSeq(s, matches[k].end, stop))
    IN  SnippetFile(
            strip(matches[k].path),
            IF content # <<>> /\ content[Len(content)] # "\n"
                THEN content \o <<"\n">> ELSE content)

has_path(f) == f.path # <<>>

parse_snippet(output) ==
    LET s == strip(replace_crlf(output))
        matches == file_matches(s, 1)
    IN  IF s = <<>> THEN SnippetResult(<<>>, TRUE, <<>>)
        ELSE IF matches = <<>> THEN SnippetResult(<<>>, TRUE, s)
        ELSE SnippetResult(
                SelectSeq([k \in 1..Len(matches) |-> file_block(s, matches, k)],
                          has_path),
                FALSE, s)

\* ------------------------------------------------------------------------
\* services/agents/codegen/agent.py
\* ------------------------------------------------------------------------

\* re.search(r"(^|\n)diff\s+--git\b", code)
diff_git_marker(code) ==
    \E i \in 1..Len(code) :
        /\ at_bol(code, i)
        /\ lit_at(code, i, <<"d", "i", "f", "f">>)
        /\ skip_space(code, i + 4) > i + 4
        /\ lit_at(code, skip_space(code, i + 4), <<"-", "-", "g", "i", "t">>)
        /\ word_boundary(code, skip_space(code, i + 4) + 5)

\* re.search(r"(^|\n)\+\+\+\b", code)
plus_marker(code) ==
    \E i \in 1..Len(code) :
        at_bol(code, i) /\ lit_at(code, i, <<"+", "+", "+">>) /\ word_boundary(code, i + 3)

\* re.search(r"(^|\n)@@\b", code)
hunk_marker(code) ==
    \E i \in 1..Len(code) :
        at_bol(code, i) /\ lit_at(code, i, <<"@", "@">>) /\ word_boundary(code, i + 2)

\* the condition of the snippet guardrail on diff markers
has_diff_markers(code) ==
    diff_git_marker(code) \/ plus_marker(code) \/ hunk_marker(code)

\* out of _dedupe_preserve_order: each item stripped, no empty item, no item
\* twice
RECURSIVE dedupe_onto(_, _)
dedupe_onto(out, items) ==
    IF items = <<>> THEN out
    ELSE LET s == strip(Head(items))
         IN  IF s = <<>> \/ (\E k \in 1..Len(out) : out[k] = s)
                 THEN dedupe_onto(out, Tail(items))
                 ELSE dedupe_onto(Append(out, s), Tail(items))

_dedupe_preserve_order(items) == dedupe_onto(<<>>, items)

\* path.replace("\\", "/").casefold()
norm_path(path) ==
    lower([i \in 1..Len(path) |-> IF path[i] = "\\" THEN "/" ELSE path[i]])

\* p.rsplit("/", 1)[-1]
RECURSIVE basename(_)
basename(p) ==
    IF \E i \in 1..Len(p) : p[i] = "/"
        THEN basename(SubSeq(p, (CHOOSE i \in 1..Len(p) : p[i] = "/") + 1, Len(p)))
        ELSE p

_is_test_path(path) ==
    LET p == norm_path(path)
        name == basename(p)
        wrapped == <<"/">> \o p \o <<"/">>
    IN  \/ contains(wrapped, <<"/", "t", "e", "s", "t", "s", "/">>)
        \/ contains(wrapped, <<"/", "t", "e", "s", "t", "/">>)
        \/ contains(wrapped, <<"/", "_", "_", "t", "e", "s", "t", "s", "_", "_", "/">>)
        \/ (lit_at(name, 1, <<"t", "e", "s", "t", "_">>) /\ endswith(name, <<".", "p", "y">>))
        \/ endswith(name, <<"_", "t", "e", "s", "t", ".", "p", "y">>)
        \/ contains(name, <<".", "s", "p", "e", "c", ".">>)
        \/ contains(name, <<".", "t", "e", "s", "t", ".">>)

\* diff\s+--git\s+a/(\S+)\s+b/(\S+) matched at s[i]: both paths and the
\* position after the second one
diff_header(s, i) ==
    LET j == skip_space(s, i + 4)
        k == skip_space(s, j + 5)
        a_end == skip_nonspace(s, k + 2)
        m == skip_space(s, a_end)
        b_end == skip_nonspace(s, m + 2)
    IN  IF /\ lit_at(s, i, <<"d", "i", "f", "f">>)
           /\ j > i + 4
           /\ lit_at(s, j, <<"-", "-", "g", "i", "t">>)
           /\ k > j + 5
           /\ lit_at(s, k, <<"a", "/">>)
           /\ a_end > k + 2
           /\ m > a_end
           /\ lit_at(s, m, <<"b", "/">>)
           /\ b_end > m + 2
        THEN [ok |-> TRUE, a_path |-> SubSeq(s, k + 2, a_end - 1),
              b_path |-> SubSeq(s, m + 2, b_end - 1), stop |-> b_end]
        ELSE [ok |-> FALSE]

\* where ^diff\s+--git\s+a/(\S+)\s+b/(\S+)\s*$ matches under re.MULTILINE
header_starts(patch) ==
    {i \in 1..Len(patch) :
         /\ at_bol(patch, i)
         /\ diff_header(patch, i).ok
         /\ space_to_eol(patch, diff_header(patch, i).stop) # {}}

\* the paths of the matches of re.finditer from patch[i] on: the next match
\* is looked for where the last one ended
RECURSIVE diff_paths_from(_, _)
diff_paths_from(patch, i) ==
    LET starts == {j \in header_starts(patch) : j >= i}
        m == diff_header(patch, min_of(starts))
    IN  IF starts = {} THEN <<>>
        ELSE SelectSeq(<<m.a_path, m.b_path>>,
                       LAMBDA p : p # <<"/", "d", "e", "v", "/", "n", "u", "l", "l">>)
             \o diff_paths_from(patch, max_of(space_to_eol(patch, m.stop)))

_extract_diff_paths(patch) == _dedupe_preserve_order(diff_paths_from(patch, 1))

\* the loop of _patch_deletes_or_moves_tests from lines[i] on; curr_a is the
\* a/ path of the last diff header, None after a header that does not parse
RECURSIVE deletes_or_moves_from(_, _, _)
deletes_or_moves_from(lines, i, curr_a) ==
    IF i > Len(lines) THEN FALSE
    ELSE LET line == lines[i]
             m == diff_header(line, 1)
         IN  IF lit_at(line, 1, <<"d", "i", "f", "f", " ", "-", "-", "g", "i", "t", " ", "a", "/">>)
                 THEN deletes_or_moves_from(
                          lines, i + 1,
                          IF m.ok /\ m.stop = Len(line) + 1
                              THEN Some(m.a_path) ELSE None)
             ELSE IF /\ lit_at(line, 1, <<"d", "e", "l", "e", "t", "e", "d", " ", "f", "i", "l", "e", " ", "m", "o", "d", "e">>)
                     /\ curr_a # None
                     /\ curr_a[1] # <<>>
                     /\ _is_test_path(curr_a[1])
                 THEN TRUE
             ELSE IF /\ lit_at(line, 1, <<"r", "e", "n", "a", "m", "e", " ", "f", "r", "o", "m", " ">>)
                     /\ _is_test_path(strip(SubSeq(line, 13, Len(line))))
                 THEN TRUE
             ELSE IF /\ lit_at(line, 1, <<"r", "e", "n", "a", "m", "e", " ", "t", "o", " ">>)
                     /\ _is_test_path(strip(SubSeq(line, 11, Len(line))))
                 THEN TRUE
             ELSE deletes_or_moves_from(lines, i + 1, curr_a)

_patch_deletes_or_moves_tests(patch) ==
    deletes_or_moves_from(splitlines(patch), 1, None)

_user_explicitly_requested_test_deletion(task) ==
    LET t == lower(task)
    IN  /\ contains(t, <<"t", "e", "s", "t">>)
        /\ any_in(t, {<<"d", "e", "l", "e", "t", "e">>, <<"r", "e", "m", "o", "v", "e">>, <<"r", "e", "n", "a", "m", "e">>, <<"m", "o", "v", "e">>})
        /\ any_in(t, {<<"t", "e", "s", "t">>, <<"t", "e", "s", "t", "s">>})

\* [A-Za-z0-9_.-]
PATH_CHARS == WORD_CHARS \cup {".", "-"}

\* s[i..e-1] is [A-Za-z0-9_.-]+(?:/[A-Za-z0-9_.-]+)+\.[A-Za-z0-9_.-]+ : path
\* characters and slashes, no empty segment, a slash, and a dot inside the
\* last segment
is_path_token(s, i, e) ==
    /\ e > i
    /\ \A k \in i..(e - 1) : s[k] \in PATH_CHARS \cup {"/"}
    /\ s[i] # "/"
    /\ s[e - 1] # "/"
    /\ \A k \in i..(e - 2) : ~(s[k] = "/" /\ s[k + 1] = "/")
    /\ \E k \in i..(e - 1) : s[k] = "/"
    /\ \E d \in (i + 2)..(e - 2) :
           /\ s[d] = "."
           /\ s[d - 1] # "/"
           /\ \A k \in d..(e - 1) : s[k] # "/"

\* where the match of \b(?!https?://)(...)\b that starts at s[i] may end
path_token_ends(s, i) ==
    IF /\ word_boundary(s, i)
       /\ ~lit_at(s, i, <<"h", "t", "t", "p", ":", "/", "/">>)
       /\ ~lit_at(s, i, <<"h", "t", "t", "p", "s", ":", "/", "/">>)
    THEN {e \in (i + 1)..(Len(s) + 1) :
              is_path_token(s, i, e) /\ word_boundary(s, e)}
    ELSE {}

\* the matches of re.finditer from text[i] on; a greedy match ends at the
\* last position it may end at
RECURSIVE path_tokens_from(_, _)
path_tokens_from(text, i) ==
    IF i > Len(text) THEN {}
    ELSE LET ends == path_token_ends(text, i)
         IN  IF ends # {}
                 THEN {SubSeq(text, i, max_of(ends) - 1)}
                      \cup path_tokens_from(text, max_of(ends))
                 ELSE path_tokens_from(text, i + 1)

_report_mentions_only_touched_files(notes, touched_paths) ==
    LET allowed == {norm_path(touched_paths[k]) : k \in 1..Len(touched_paths)}
        candidates == path_tokens_from(join(<<"\n">>, notes), 1)
    IN  allowed = {} \/ \A c \in candidates : norm_path(c) \in allowed

\* re.sub(r"\s+", " ", s): every run of whitespace becomes one space
RECURSIVE collapse_space(_)
collapse_space(s) ==
    IF s = <<>> THEN <<>>
    ELSE IF s[1] \in WHITESPACE
        THEN <<" ">> \o collapse_space(SubSeq(s, skip_space(s, 1), Len(s)))
    ELSE <<s[1]>> \o collapse_space(Tail(s))

\* the normal form of a step that keeps its case
_normalize_step_cased(step) == collapse_space(strip(step))

_normalize_step(step) == lower(collapse_space(strip(step)))

\* the position after words[1]\s+words[2]\s+... matched at s[i], 0 if it
\* does not match there
RECURSIVE words_end(_, _, _)
words_end(s, i, words) ==
    IF ~lit_at(s, i, Head(words)) THEN 0
    ELSE IF Len(words) = 1 THEN i + Len(Head(words))
    ELSE IF skip_space(s, i + Len(Head(words))) = i + Len(Head(words)) THEN 0
    ELSE words_end(s, skip_space(s, i + Len(Head(words))), Tail(words))

\* re.search of \bw1\s+w2...(suffix)?\b in s, for the suffixes given
re_words(s, words, suffixes) ==
    \E i \in 1..Len(s) :
        /\ word_boundary(s, i)
        /\ words_end(s, i, words) # 0
        /\ \E suf \in suffixes \cup {<<>>} :
               /\ lit_at(s, words_end(s, i, words), suf)
               /\ word_boundary(s, words_end(s, i, words) + Len(suf))

\* any(re.search(p, s) for p in generic_patterns)
matches_generic_pattern(s) ==
    \/ re_words(s, <<<<"r", "u", "n">>, <<"u", "n", "i", "t">>, <<"t", "e", "s", "t">>>>, {<<"s">>})
    \/ re_words(s, <<<<"r", "u", "n">>, <<"t", "e", "s", "t">>>>, {<<"s">>})
    \/ re_words(s, <<<<"u", "n", "i", "t">>, <<"t", "e", "s", "t">>>>, {<<"s">>})
    \/ re_words(s, <<<<"l", "i", "n", "t">>>>, {<<"e", "r", "s">>, <<"i", "n", "g">>})
    \/ re_words(s, <<<<"s", "m", "o", "k", "e">>, <<"t", "e", "s", "t">>>>, {})

_is_generic_verification_step(step) ==
    matches_generic_pattern(_normalize_step(step))

\* a file of context.files
ContextFile(path, content) == [path |-> path, content |-> content]

_python_project_has_tests(files, task) ==
    \/ any_in(lower(task), {<<"p", "y", "t", "e", "s", "t">>, <<"u", "n", "i", "t", "t", "e", "s", "t">>, <<"t", "e", "s", "t", " ", "s", "u", "i", "t", "e">>, <<"t", "e", "s", "t", "s">>})
    \/ \E k \in 1..Len(files) : _is_test_path(files[k].path)

\* [str(s).strip() for s in steps if str(s).strip()]
RECURSIVE stripped_nonempty(_)
stripped_nonempty(steps) ==
    IF steps = <<>> THEN <<>>
    ELSE IF strip(Head(steps)) = <<>> THEN stripped_nonempty(Tail(steps))
    ELSE <<strip(Head(steps))>> \o stripped_nonempty(Tail(steps))

\* add() over steps: a step is appended unless it is empty or a step with the
\* same normal form is there
RECURSIVE add_all(_, _)
add_all(cleaned, steps) ==
    IF steps = <<>> THEN cleaned
    ELSE LET s == strip(Head(steps))
         IN  IF \/ s = <<>>
                \/ \E k \in 1..Len(cleaned) :
                       _normalize_step(cleaned[k]) = _normalize_step(s)
                 THEN add_all(cleaned, Tail(steps))
                 ELSE add_all(Append(cleaned, s), Tail(steps))

mentions_maven(s) == contains(lower(s), <<"m", "v", "n">>) \/ contains(lower(s), <<"m", "a", "v", "e", "n">>)

mentions_gradle(s) ==
    contains(lower(s), <<"g", "r", "a", "d", "l", "e">>) \/ contains(lower(s), <<"g", "r", "a", "d", "l", "e", "w">>)

clean_verification_steps(steps, language, task, files) ==
    LET raw == stripped_nonempty(steps)
        task_lc == lower(task)
        java_greenfield ==
            /\ language = <<"j", "a", "v", "a">>
            /\ \/ files = <<>>
               \/ contains(task_lc, <<"c", "r", "e", "a", "t", "e", " ", "c", "l", "a", "s", "s">>)
               \/ contains(task_lc, <<"c", "r", "e", "a", "t", "e", " ", "c", "l", "a", "s", "s", "e", "s">>)
        wants_generic ==
            any_in(task_lc, {<<"u", "n", "i", "t", " ", "t", "e", "s", "t">>, <<"u", "n", "i", "t", " ", "t", "e", "s", "t", "s">>, <<"t", "e", "s", "t", "s">>, <<"t", "e", "s", "t", " ", "s", "u", "i", "t", "e">>,
                             <<"l", "i", "n", "t">>, <<"l", "i", "n", "t", "e", "r">>, <<"s", "m", "o", "k", "e", " ", "t", "e", "s", "t">>})
        mentions_test_framework ==
            any_in(task_lc, {<<"p", "y", "t", "e", "s", "t">>, <<"u", "n", "i", "t", "t", "e", "s", "t">>, <<"j", "e", "s", "t">>, <<"v", "i", "t", "e", "s", "t">>, <<"m", "o", "c", "h", "a">>,
                             <<"j", "u", "n", "i", "t">>, <<"t", "e", "s", "t", "n", "g">>, <<"g", "o", " ", "t", "e", "s", "t">>, <<"c", "a", "r", "g", "o", " ", "t", "e", "s", "t">>,
                             <<"d", "o", "t", "n", "e", "t", " ", "t", "e", "s", "t">>})
        allow_generic == wants_generic \/ mentions_test_framework
        allow_maven == contains(task_lc, <<"m", "v", "n">>) \/ contains(task_lc, <<"m", "a", "v", "e", "n">>)
        allow_gradle ==
            \/ contains(task_lc, <<"g", "r", "a", "d", "l", "e">>)
            \/ contains(task_lc, <<".", "/", "g", "r", "a", "d", "l", "e", "w">>)
            \/ contains(task_lc, <<"g", "r", "a", "d", "l", "e", "w">>)
        kept(step) ==
            /\ ~contains(lower(step), <<"j", "s", "h", "e", "l", "l">>)
            /\ allow_generic \/ ~matches_generic_pattern(lower(step))
            /\ ~(java_greenfield /\ mentions_maven(step) /\ ~allow_maven)
            /\ ~(java_greenfield /\ mentions_gradle(step) /\ ~allow_gradle)
        first == add_all(<<>>, SelectSeq(raw, kept))
        preferred ==
            IF allow_maven THEN <<<<"m", "v", "n", " ", "t", "e", "s", "t">>>>
            ELSE <<<<"j", "a", "v", "a", "c", " ", "U", "s", "e", "r", ".", "j", "a", "v", "a", " ", "E", "m", "p", "l", "o", "y", "e", "e", ".", "j", "a", "v", "a", " ", "M", "a", "i", "n", ".", "j", "a", "v", "a">>, <<"j", "a", "v", "a", " ", "M", "a", "i", "n">>>>
        allowed_tool(s) ==
            /\ allow_maven \/ ~mentions_maven(s)
            /\ allow_gradle \/ ~mentions_gradle(s)
        cleaned ==
            IF java_greenfield
                THEN SelectSeq(add_all(add_all(<<>>, preferred), first),
                               allowed_tool)
                ELSE first
    IN  IF raw = <<>> THEN <<>> ELSE prefix(cleaned, 6)

_clean_verification_steps_final(steps, language, task, files) ==
    LET cleaned == clean_verification_steps(steps, language, task, files)
        has_tests == _python_project_has_tests(files, task)
        kept(s) ==
            /\ ~(_is_generic_verification_step(s) /\ ~contains(lower(s), <<"p", "y", "t", "e", "s", "t">>))
            /\ ~contains(lower(s), <<"p", "y", "_", "c", "o", "m", "p", "i", "l", "e">>)
            /\ ~(contains(lower(s), <<"p", "y", "t", "e", "s", "t">>) /\ ~has_tests)
        out == SelectSeq(cleaned, kept)
        with_compileall ==
            IF \E k \in 1..Len(out) : contains(lower(out[k]), <<"c", "o", "m", "p", "i", "l", "e", "a", "l", "l">>)
                THEN out
                ELSE <<<<"p", "y", "t", "h", "o", "n", " ", "-", "m", " ", "c", "o", "m", "p", "i", "l", "e", "a", "l", "l", " ", ".">>>> \o out
    IN  prefix(_dedupe_preserve_order(
                   IF lower(language) = <<"p", "y", "t", "h", "o", "n">> THEN with_compileall
                   ELSE cleaned), 6)

\* the printable ASCII characters in code point order
ASCII ==
    <<" ", "!", "\"", "#", "$", "%", "&", "'", "(", ")", "*", "+", ",", "-",
      ".", "/", "0", "1", "2", "3", "4", "5", "6", "7", "8", "9", ":", ";",
      "<", "=", ">", "?", "@", "A", "B", "C", "D", "E", "F", "G", "H", "I",
      "J", "K", "L", "M", "N", "O", "P", "Q", "R", "S", "T", "U", "V", "W",
      "X", "Y", "Z", "[", "\\", "]", "^", "_", "backquote", "a", "b", "c", "d", "e",
      "f", "g", "h", "i", "j", "k", "l", "m", "n", "o", "p", "q", "r", "s",
      "t", "u", "v", "w", "x", "y", "z", "{", "|", "}", "~">>

\* ord(c) - 31 of a printable character, 0 of a control character
ord(c) ==
    IF \E i \in 1..Len(ASCII) : ASCII[i] = c
        THEN CHOOSE i \in 1..Len(ASCII) : ASCII[i] = c
        ELSE 0

\* a < b of two strings
RECURSIVE str_less(_, _)
str_less(a, b) ==
    IF b = <<>> THEN FALSE
    ELSE IF a = <<>> THEN TRUE
    ELSE IF a[1] # b[1] THEN ord(a[1]) < ord(b[1])
    ELSE str_less(Tail(a), Tail(b))

\* sorted(S) of a set of strings
RECURSIVE sorted(_)
sorted(S) ==
    IF S = {} THEN <<>>
    ELSE LET least == CHOOSE a \in S : \A b \in S \ {a} : str_less(a, b)
         IN  <<least>> \o sorted(S \ {least})

ALNUM_CHARS == WORD_CHARS \ {"_"}

SPRING_SUFFIXES ==
    {<<"C", "o", "n", "t", "r", "o", "l", "l", "e", "r">>, <<"S", "e", "r", "v", "i", "c", "e">>, <<"R", "e", "p", "o", "s", "i", "t", "o", "r", "y">>, <<"D", "t", "o">>, <<"D", "T", "O">>, <<"R", "e", "q", "u", "e", "s", "t">>,
     <<"R", "e", "s", "p", "o", "n", "s", "e">>, <<"E", "n", "t", "i", "t", "y">>, <<"M", "o", "d", "e", "l">>}

\* re.findall of \b[A-Z][A-Za-z0-9]+(?:Controller|...|Model)\b : the words of
\* letters and digits that start with a capital and end, after one more
\* character at least, with one of the suffixes
class_tokens(task) ==
    {SubSeq(task, i, e - 1) :
        <<i, e>> \in {<<i, e>> \in (1..Len(task)) \X (1..(Len(task) + 1)) :
            /\ e > i
            /\ ~is_word(task, i - 1)
            /\ ~is_word(task, e)
            /\ \E k \in 1..26 : UPPERCASE[k] = task[i]
            /\ \A k \in i..(e - 1) : task[k] \in ALNUM_CHARS
            /\ \E suf \in SPRING_SUFFIXES :
                   /\ e - i >= 2 + Len(suf)
                   /\ lit_at(task, e - Len(suf), suf)}}

\* where the match of \b[\w./-]+\.(?:java|kt)\b that starts at s[i] may end,
\* ignoring case
file_token_ends(s, i) ==
    IF word_boundary(s, i)
    THEN {e \in (i + 1)..(Len(s) + 1) :
              /\ \A k \in i..(e - 1) : s[k] \in WORD_CHARS \cup {".", "/", "-"}
              /\ word_boundary(s, e)
              /\ \/ (e - i >= 6 /\ lower(SubSeq(s, e - 5, e - 1)) = <<".", "j", "a", "v", "a">>)
                 \/ (e - i >= 4 /\ lower(SubSeq(s, e - 3, e - 1)) = <<".", "k", "t">>)}
    ELSE {}

\* re.findall from task[i] on; a greedy match ends at the last position it
\* may end at
RECURSIVE file_tokens_from(_, _)
file_tokens_from(task, i) ==
    IF i > Len(task) THEN {}
    ELSE LET ends == file_token_ends(task, i)
         IN  IF ends # {}
                 THEN {SubSeq(task, i, max_of(ends) - 1)}
                      \cup file_tokens_from(task, max_of(ends))
                 ELSE file_tokens_from(task, i + 1)

file_tokens(task) == file_tokens_from(task, 1)

STRONG_TOKENS ==
    {<<"d", "e", "f", " ">>, <<"c", "l", "a", "s", "s", " ">>, <<"r", "e", "t", "u", "r", "n", " ">>, <<"i", "m", "p", "o", "r", "t", " ">>, <<"f", "r", "o", "m", " ">>, <<"t", "r", "y", ":">>, <<"e", "x", "c", "e", "p", "t">>,
     <<"r", "a", "i", "s", "e", " ">>, <<"a", "s", "y", "n", "c", " ", "d", "e", "f", " ">>, <<"a", "w", "a", "i", "t", " ">>, <<"p", "u", "b", "l", "i", "c", " ", "c", "l", "a", "s", "s">>, <<"f", "u", "n", "c", "t", "i", "o", "n", " ">>, <<"=", ">">>, <<"{">>}

\* looks_like_inline_code of the mode decision
looks_like_inline_code(inline_task) ==
    LET task_lines == splitlines(inline_task)
        token_hits == Cardinality({tok \in STRONG_TOKENS : contains(inline_task, tok)})
        multiline_like_code == Len(task_lines) >= 3 /\ token_hits >= 1
        oneline_like_python_module ==
            /\ Len(task_lines) <= 2
            /\ contains(inline_task, <<"d", "e", "f", " ">>)
            /\ any_in(inline_task, {<<"i", "m", "p", "o", "r", "t", " ">>, <<"f", "r", "o", "m", " ">>, <<"c", "l", "a", "s", "s", " ">>})
        oneline_like_code ==
            /\ Len(task_lines) <= 2
            /\ \/ oneline_like_python_module
               \/ token_hits >= 2
               \/ (contains(inline_task, <<";">>) /\ token_hits >= 1)
    IN  multiline_like_code \/ oneline_like_code

\* the name of the virtual file of a pasted task
default_name(language) ==
    LET lang == lower(language)
    IN  CASE lang = <<"p", "y", "t", "h", "o", "n">> -> <<"i", "n", "l", "i", "n", "e", "_", "s", "n", "i", "p", "p", "e", "t", ".", "p", "y">>
          [] lang = <<"j", "a", "v", "a">> -> <<"i", "n", "l", "i", "n", "e", "_", "s", "n", "i", "p", "p", "e", "t", ".", "j", "a", "v", "a">>
          [] lang = <<"j", "a", "v", "a", "s", "c", "r", "i", "p", "t">> -> <<"i", "n", "l", "i", "n", "e", "_", "s", "n", "i", "p", "p", "e", "t", ".", "j", "s">>
          [] lang = <<"t", "y", "p", "e", "s", "c", "r", "i", "p", "t">> -> <<"i", "n", "l", "i", "n", "e", "_", "s", "n", "i", "p", "p", "e", "t", ".", "t", "s">>
          [] lang = <<"c", "s", "h", "a", "r", "p">> -> <<"i", "n", "l", "i", "n", "e", "_", "s", "n", "i", "p", "p", "e", "t", ".", "c", "s">>
          [] OTHER -> <<"i", "n", "l", "i", "n", "e", "_", "s", "n", "i", "p", "p", "e", "t", ".", "t", "x", "t">>

\* SnippetResult.code of run_snippet for the text the model generated
run_snippet(raw) == strip(raw) \o <<"\n">>

\* the result of the intake stage
IntakeResult(needs_clarification, questions, language, goal, verification_steps) ==
    [needs_clarification |-> needs_clarification, questions |-> questions,
     language |-> language, goal |-> goal,
     verification_steps |-> verification_steps]

\* the result of the planner stage
PlanResult(files_to_touch, verification_steps) ==
    [files_to_touch |-> files_to_touch, verification_steps |-> verification_steps]

\* the keys of request.context the agent reads
CodegenContext(files, error_logs, debug_fix, project_scan, language, framework, goal) ==
    [files |-> files, error_logs |-> error_logs, debug_fix |-> debug_fix,
     project_scan |-> project_scan, language |-> language,
     framework |-> framework, goal |-> goal]

\* what the language model and the planner give one run: the parsed reply of
\* the intake, the plan, the texts of the snippet, implementer, reviser and
\* patch writer stages, the parsed replies of the reviewer and of the critic,
\* and the text of the reporter
Pipeline(intake_data, plan, snippet_raw, patch_raw, review_data, solid_data, revise_raw, writer_raw, report_raw) ==
    [intake_data |-> intake_data, plan |-> plan, snippet_raw |-> snippet_raw,
     patch_raw |-> patch_raw, review_data |-> review_data,
     solid_data |-> solid_data, revise_raw |-> revise_raw,
     writer_raw |-> writer_raw, report_raw |-> report_raw]

\* ------------------------------------------------------------------------
\* services/agents/codegen/pipeline/utils.py and intake.py
\* ------------------------------------------------------------------------

ExecutionProfile(language, framework) ==
    [language |-> language, framework |-> framework]

\* p.rpartition("."): the lower-cased text after the last dot of a path, or
\* None when the path has no dot or ends in one
file_ext(path) ==
    LET dots == {i \in 1..Len(path) : path[i] = "."}
        last_dot == CHOOSE i \in dots : \A j \in dots : j <= i
    IN  IF dots = {} \/ last_dot = Len(path) THEN None
        ELSE Some(lower(SubSeq(path, last_dot + 1, Len(path))))

\* the extensions of context.files
exts_of(files) ==
    {file_ext(files[k].path)[1] :
         k \in {j \in 1..Len(files) : file_ext(files[j].path) # None}}

\* detect_profile: the explicit language and framework of the context, else
\* the file extensions, else the keywords of the task
detect_profile(context, task) ==
    LET task_l == lower(task)
        lang0 == lower(strip(context.language))
        fw0 == lower(strip(context.framework))
        exts == exts_of(context.files)
        has_files == exts # {}
        react_detected ==
            \/ fw0 = <<"r", "e", "a", "c", "t">>
            \/ contains(task_l, <<"r", "e", "a", "c", "t">>)
            \/ exts \cap {<<"t", "s", "x">>, <<"j", "s", "x">>} # {}
        lang1 ==
            IF lang0 # <<>> THEN lang0
            ELSE IF <<"p", "y">> \in exts THEN <<"p", "y", "t", "h", "o", "n">>
            ELSE IF <<"j", "a", "v", "a">> \in exts THEN <<"j", "a", "v", "a">>
            ELSE IF <<"c", "s">> \in exts THEN <<"c", "s", "h", "a", "r", "p">>
            ELSE IF exts \cap {<<"t", "s">>, <<"t", "s", "x">>} # {} THEN <<"t", "y", "p", "e", "s", "c", "r", "i", "p", "t">>
            ELSE IF exts \cap {<<"j", "s">>, <<"j", "s", "x">>} # {} THEN <<"j", "a", "v", "a", "s", "c", "r", "i", "p", "t">>
            ELSE IF contains(task_l, <<"t", "y", "p", "e", "s", "c", "r", "i", "p", "t">>) THEN <<"t", "y", "p", "e", "s", "c", "r", "i", "p", "t">>
            ELSE IF any_in(task_l, {<<"j", "a", "v", "a", "s", "c", "r", "i", "p", "t">>, <<"n", "o", "d", "e">>, <<"n", "o", "d", "e", "j", "s">>})
                THEN <<"j", "a", "v", "a", "s", "c", "r", "i", "p", "t">>
            ELSE IF any_in(task_l, {<<"a", "s", "p", ".", "n", "e", "t">>, <<"d", "o", "t", "n", "e", "t">>, <<"c", "#">>}) THEN <<"c", "s", "h", "a", "r", "p">>
            ELSE IF contains(task_l, <<"s", "p", "r", "i", "n", "g">>) THEN <<"j", "a", "v", "a">>
            ELSE IF react_detected THEN <<"j", "a", "v", "a", "s", "c", "r", "i", "p", "t">>
            ELSE <<"p", "y", "t", "h", "o", "n">>
        lang ==
            IF react_detected /\ strip(context.language) = <<>>
                THEN IF <<"t", "s", "x">> \in exts \/ contains(task_l, <<"t", "y", "p", "e", "s", "c", "r", "i", "p", "t">>)
                         THEN <<"t", "y", "p", "e", "s", "c", "r", "i", "p", "t">>
                     ELSE IF exts \cap {<<"j", "s", "x">>, <<"j", "s">>} # {} THEN <<"j", "a", "v", "a", "s", "c", "r", "i", "p", "t">>
                     ELSE IF ~has_files THEN <<"j", "a", "v", "a", "s", "c", "r", "i", "p", "t">>
                     ELSE lang1
                ELSE lang1
        fw ==
            IF fw0 # <<>> THEN fw0
            ELSE IF react_detected THEN <<"r", "e", "a", "c", "t">>
            ELSE IF contains(task_l, <<"f", "a", "s", "t", "a", "p", "i">>) THEN <<"f", "a", "s", "t", "a", "p", "i">>
            ELSE IF contains(task_l, <<"s", "p", "r", "i", "n", "g">>) THEN <<"s", "p", "r", "i", "n", "g">>
            ELSE IF contains(task_l, <<"e", "x", "p", "r", "e", "s", "s">>) THEN <<"e", "x", "p", "r", "e", "s", "s">>
            ELSE IF any_in(task_l, {<<"a", "s", "p", ".", "n", "e", "t">>, <<"a", "s", "p", "n", "e", "t">>}) THEN <<"a", "s", "p", "n", "e", "t">>
            ELSE <<>>
    IN  ExecutionProfile(lang, fw)

_ALLOWED_LANGUAGES ==
    {<<"p", "y", "t", "h", "o", "n">>, <<"j", "a", "v", "a">>, <<"j", "a", "v", "a", "s", "c", "r", "i", "p", "t">>, <<"t", "y", "p", "e", "s", "c", "r", "i", "p", "t">>, <<"c", "s", "h", "a", "r", "p">>}

\* the goal a text names, or None
goal_named(text) ==
    LET g == lower(strip(text))
    IN  IF g = <<"f", "e", "a", "t", "u", "r", "e">> THEN Some("feature")
        ELSE IF g = <<"b", "u", "g", "f", "i", "x">> THEN Some("bugfix")
        ELSE IF g = <<"r", "e", "f", "a", "c", "t", "o", "r">> THEN Some("refactor")
        ELSE None

_infer_goal(task, context) ==
    LET t == lower(task)
    IN  IF goal_named(context.goal) # None THEN goal_named(context.goal)[1]
        ELSE IF context.error_logs # <<>> THEN "bugfix"
        ELSE IF any_in(t, {<<"f", "i", "x">>, <<"b", "u", "g">>, <<"e", "r", "r", "o", "r">>, <<"e", "x", "c", "e", "p", "t", "i", "o", "n">>, <<"s", "t", "a", "c", "k", " ", "t", "r", "a", "c", "e">>,
                           <<"t", "r", "a", "c", "e", "b", "a", "c", "k">>})
            THEN "bugfix"
        ELSE IF any_in(t, {<<"r", "e", "f", "a", "c", "t", "o", "r">>, <<"c", "l", "e", "a", "n", "u", "p">>, <<"c", "l", "e", "a", "n", " ", "u", "p">>, <<"o", "p", "t", "i", "m", "i", "z", "e">>})
            THEN "refactor"
        ELSE "feature"

\* _clean_list(xs, max_items=n)
_clean_list(xs, max_items) == prefix(stripped_nonempty(xs), max_items)

\* the reply of the intake model as parse_json returns it: the keys run_intake
\* reads (language is the "language" of the "profile" dictionary)
IntakeData(needs_clarification, questions, language, goal, verification_steps) ==
    [needs_clarification |-> needs_clarification, questions |-> questions,
     language |-> language, goal |-> goal,
     verification_steps |-> verification_steps]

\* run_intake for data, the dictionary parse_json made of the reply (<<>> is
\* the empty dictionary of a reply that is not a JSON object)
run_intake(data, task, context) ==
    LET profile == detect_profile(context, task)
        d == data[1]
        lang == lower(strip(d.language))
        cleaned == _clean_list(d.questions, 3)
    IN  IF data = <<>>
            THEN IntakeResult(
                     TRUE,
                     <<<<"P", "l", "e", "a", "s", "e", " ", "p", "r", "o", "v", "i", "d", "e", " ", "t", "h", "e", " ", "r", "e", "l", "e", "v", "a", "n", "t", " ", "f", "i", "l", "e", "(", "s", ")", " ", "a", "s", " ", "c", "o", "n", "t", "e", "x", "t", ".", "f", "i", "l", "e", "s", " ", "(", "p", "a", "t", "h", " ", "+", " ", "c", "o", "n", "t", "e", "n", "t", ")", ",", " ", "o", "r", " ", "a", " ", "m", "i", "n", "i", "m", "a", "l", " ", "r", "e", "p", "r", "o", "d", "u", "c", "t", "i", "o", "n", ".">>,
                       <<"W", "h", "a", "t", " ", "l", "a", "n", "g", "u", "a", "g", "e", "/", "f", "r", "a", "m", "e", "w", "o", "r", "k", " ", "s", "h", "o", "u", "l", "d", " ", "I", " ", "t", "a", "r", "g", "e", "t", " ", "(", "p", "y", "t", "h", "o", "n", "/", "j", "a", "v", "a", "/", "j", "a", "v", "a", "s", "c", "r", "i", "p", "t", "/", "t", "y", "p", "e", "s", "c", "r", "i", "p", "t", "/", "c", "s", "h", "a", "r", "p", ";", " ", "f", "a", "s", "t", "a", "p", "i", "/", "s", "p", "r", "i", "n", "g", "/", "r", "e", "a", "c", "t", "/", "e", "x", "p", "r", "e", "s", "s", "/", "a", "s", "p", "n", "e", "t", ")", "?">>>>,
                     profile.language, _infer_goal(task, context), <<>>)
            ELSE IntakeResult(
                     d.needs_clarification,
                     IF ~d.needs_clarification THEN <<>>
                     ELSE IF cleaned = <<>>
                         THEN <<<<"P", "l", "e", "a", "s", "e", " ", "p", "r", "o", "v", "i", "d", "e", " ", "t", "h", "e", " ", "r", "e", "l", "e", "v", "a", "n", "t", " ", "f", "i", "l", "e", "(", "s", ")", " ", "a", "s", " ", "c", "o", "n", "t", "e", "x", "t", ".", "f", "i", "l", "e", "s", " ", "(", "p", "a", "t", "h", " ", "+", " ", "c", "o", "n", "t", "e", "n", "t", ")", ".">>,
                                <<"I", "f", " ", "a", "p", "p", "l", "i", "c", "a", "b", "l", "e", ",", " ", "p", "r", "o", "v", "i", "d", "e", " ", "t", "h", "e", " ", "f", "u", "l", "l", " ", "e", "r", "r", "o", "r", " ", "l", "o", "g", " ", "/", " ", "s", "t", "a", "c", "k", " ", "t", "r", "a", "c", "e", " ", "i", "n", " ", "c", "o", "n", "t", "e", "x", "t", ".", "e", "r", "r", "o", "r", "_", "l", "o", "g", "s", ".">>>>
                     ELSE cleaned,
                     IF lang \in _ALLOWED_LANGUAGES THEN lang ELSE profile.language,
                     IF goal_named(d.goal) # None THEN goal_named(d.goal)[1]
                     ELSE _infer_goal(task, context),
                     stripped_nonempty(d.verification_steps))

\* ------------------------------------------------------------------------
\* services/agents/codegen/pipeline and subagents: the stages that turn the
\* text of the language model into a patch, a review and a critique
\* ------------------------------------------------------------------------

\* ensure_unified_diff: the stripped text and a newline when the text holds a
\* "diff --git " header or starts with "*** Begin Patch", else the empty string
ensure_unified_diff(text) ==
    LET s == strip(text)
    IN  IF s = <<>> THEN <<>>
        ELSE IF /\ ~contains(s, <<"d", "i", "f", "f", " ", "-", "-", "g", "i", "t", " ">>)
                /\ ~lit_at(lstrip(s), 1, <<"*", "*", "*", " ", "B", "e", "g", "i", "n", " ", "P", "a", "t", "c", "h">>)
            THEN <<>>
        ELSE s \o <<"\n">>

\* PatchResult.patch of run_patch for the text raw
run_patch(raw) == ensure_unified_diff(raw)

\* ReviseResult.patch of run_revise: the implementer's patch when the revision
\* is not a diff
run_revise(raw, patch) ==
    LET revised == ensure_unified_diff(raw)
    IN  IF revised = <<>> THEN patch ELSE revised

\* the characters of a JSON string body, decoded: \n is a newline and any
\* other escaped character stands for itself
RECURSIVE json_unescape(_)
json_unescape(s) ==
    IF s = <<>> THEN <<>>
    ELSE IF s[1] = "\\" /\ Len(s) >= 2
        THEN <<IF s[2] = "n" THEN "\n" ELSE s[2]>>
                 \o json_unescape(SubSeq(s, 3, Len(s)))
    ELSE <<s[1]>> \o json_unescape(Tail(s))

\* a JSON string body has no bare quote, no bare line break and no trailing
\* backslash
RECURSIVE json_string_body(_)
json_string_body(s) ==
    IF s = <<>> THEN TRUE
    ELSE IF s[1] = "\\" THEN Len(s) >= 2 /\ json_string_body(SubSeq(s, 3, Len(s)))
    ELSE s[1] \notin {"\"", "\n"} /\ json_string_body(Tail(s))

\* json.loads(raw) followed by obj.get("patch"), for the texts the patch
\* writer is given here: an object with the one key "patch" decodes to its
\* value, and any other text is not a JSON object
json_patch(raw) ==
    LET s == strip(raw)
        open == <<"{", "\"", "p", "a", "t", "c", "h", "\"", ":", " ", "\"">>
        close == <<"\"", "}">>
        body == SubSeq(s, Len(open) + 1, Len(s) - Len(close))
    IN  IF /\ Len(s) >= Len(open) + Len(close)
           /\ lit_at(s, 1, open)
           /\ endswith(s, close)
           /\ json_string_body(body)
            THEN Some(json_unescape(body))
            ELSE None

\* PatchWriteResult.patch of run_patch_writer: the text when it is a diff, or
\* the "patch" of the JSON object it is
run_patch_writer(raw) ==
    LET patch == ensure_unified_diff(raw)
        obj == json_patch(raw)
    IN  IF patch # <<>> THEN patch
        ELSE IF obj # None THEN ensure_unified_diff(obj[1])
        ELSE <<>>

ReviewResult(findings, edge_cases, improvements, must_fix) ==
    [findings |-> findings, edge_cases |-> edge_cases,
     improvements |-> improvements, must_fix |-> must_fix]

\* run_review that gives an empty review, without a note, for a reply that
\* cannot be parsed
run_review_silent(data, patch) ==
    IF data = <<>> THEN ReviewResult(<<>>, <<>>, <<>>, <<>>)
    ELSE ReviewResult(data[1].findings, data[1].edge_cases,
                      data[1].improvements, data[1].must_fix)

\* run_review for data, the dictionary parse_json made of the reply (<<>> is
\* the empty dictionary of a reply that is not a JSON object)
run_review(data, patch) ==
    IF data = <<>>
        THEN ReviewResult(<<>>, <<>>, <<>>,
                          <<<<"R", "e", "v", "i", "e", "w", " ", "s", "t", "e", "p", " ", "f", "a", "i", "l", "e", "d", " ", "t", "o", " ", "r", "e", "t", "u", "r", "n", " ", "v", "a", "l", "i", "d", " ", "J", "S", "O", "N", ".">>>>)
        ELSE ReviewResult(
                 stripped_nonempty(data[1].findings),
                 stripped_nonempty(data[1].edge_cases),
                 stripped_nonempty(data[1].improvements),
                 stripped_nonempty(data[1].must_fix)
                     \o (IF strip(patch) = <<>>
                             THEN <<<<"P", "a", "t", "c", "h", " ", "i", "s", " ", "e", "m", "p", "t", "y", " ", "o", "r", " ", "n", "o", "t", " ", "a", " ", "v", "a", "l", "i", "d", " ", "u", "n", "i", "f", "i", "e", "d", " ", "d", "i", "f", "f", ".">>>>
                             ELSE <<>>))

SolidCriticResult(solid, pattern_justification, issues, recommended_changes) ==
    [solid |-> solid, pattern_justification |-> pattern_justification,
     issues |-> issues, recommended_changes |-> recommended_changes]

\* run_solid_critic for data, the dictionary parse_json made of the reply
run_solid_critic(data, patch) ==
    IF data = <<>>
        THEN SolidCriticResult(<<>>, <<>>,
                               <<<<"S", "O", "L", "I", "D", " ", "c", "r", "i", "t", "i", "c", " ", "s", "t", "e", "p", " ", "f", "a", "i", "l", "e", "d", " ", "t", "o", " ", "r", "e", "t", "u", "r", "n", " ", "v", "a", "l", "i", "d", " ", "J", "S", "O", "N", ".">>>>,
                               <<>>)
        ELSE SolidCriticResult(
                 stripped_nonempty(data[1].solid),
                 stripped_nonempty(data[1].pattern_justification),
                 stripped_nonempty(data[1].issues)
                     \o (IF strip(patch) = <<>>
                             THEN <<<<"P", "a", "t", "c", "h", " ", "i", "s", " ", "e", "m", "p", "t", "y", " ", "o", "r", " ", "n", "o", "t", " ", "a", " ", "v", "a", "l", "i", "d", " ", "u", "n", "i", "f", "i", "e", "d", " ", "d", "i", "f", "f", ";", " ", "S", "O", "L", "I", "D", " ", "c", "r", "i", "t", "i", "q", "u", "e", " ", "m", "a", "y", " ", "b", "e", " ", "i", "n", "c", "o", "m", "p", "l", "e", "t", "e", ".">>>>
                             ELSE <<>>),
                 stripped_nonempty(data[1].recommended_changes))

\* DebugFixResult of run_debug_fix: the patch of the patch writer, reviewed
\* and criticised
DebugFixResult(patch, review, solid) ==
    [patch |-> patch, review |-> review, solid |-> solid]

run_debug_fix(env) ==
    LET patch == run_patch_writer(env.writer_raw)
    IN  DebugFixResult(patch, run_review(env.review_data, patch),
                       run_solid_critic(env.solid_data, patch))

\* ReportResult.notes of run_report: the lines of the reply that are not
\* blank, without their trailing whitespace
RECURSIVE report_lines(_)
report_lines(lines) ==
    IF lines = <<>> THEN <<>>
    ELSE IF strip(Head(lines)) = <<>> THEN report_lines(Tail(lines))
    ELSE <<rstrip(Head(lines))>> \o report_lines(Tail(lines))

run_report(raw) == report_lines(splitlines(raw))

PatchArtifact(patch) == Artifact("patch", patch)

VerificationStepsArtifact(verification_steps) ==
    Artifact("verification_steps", verification_steps)

\* a return of invoke: the response, the stages that ran, the mode, the
\* return statement taken, the files of the run, and what the reporter was
\* called with
CodegenReturn(response, stages, snippet_mode, exit, files, report_input) ==
    [response |-> response, stages |-> stages, snippet_mode |-> snippet_mode,
     exit |-> exit, files |-> files, report_input |-> report_input]

clarify(notes, questions) ==
    AgentInvokeResponse("codegen", "needs_clarification", <<>>, notes, questions)

N_MISSING_INFO ==
    <<"-", " ", "M", "i", "s", "s", "i", "n", "g", " ", "c", "r", "i", "t", "i", "c", "a", "l", " ", "i", "n", "f", "o", "r", "m", "a", "t", "i", "o", "n", " ", "t", "o", " ", "g", "e", "n", "e", "r", "a", "t", "e", " ", "a", " ", "s", "a", "f", "e", " ", "p", "a", "t", "c", "h", ".">>

N_PROVIDE_FILES ==
    <<"-", " ", "P", "l", "e", "a", "s", "e", " ", "p", "r", "o", "v", "i", "d", "e", " ", "r", "e", "l", "e", "v", "a", "n", "t", " ", "f", "i", "l", "e", "s", " ", "i", "n", " ", "c", "o", "n", "t", "e", "x", "t", ".", "f", "i", "l", "e", "s", " ", "f", "o", "r", " ", "b", "u", "g", "f", "i", "x", "/", "r", "e", "f", "a", "c", "t", "o", "r", " ", "w", "o", "r", "k", ".">>

Q_WHICH_FILES ==
    <<"W", "h", "i", "c", "h", " ", "f", "i", "l", "e", "(", "s", ")", " ", "s", "h", "o", "u", "l", "d", " ", "b", "e", " ", "m", "o", "d", "i", "f", "i", "e", "d", "?", " ", "P", "r", "o", "v", "i", "d", "e", " ", "t", "h", "e", "m", " ", "a", "s", " ", "c", "o", "n", "t", "e", "x", "t", ".", "f", "i", "l", "e", "s", " ", "(", "p", "a", "t", "h", " ", "+", " ", "c", "o", "n", "t", "e", "n", "t", ")", ".">>

Q_ERROR_LOG ==
    <<"I", "f", " ", "a", "v", "a", "i", "l", "a", "b", "l", "e", ",", " ", "i", "n", "c", "l", "u", "d", "e", " ", "t", "h", "e", " ", "f", "u", "l", "l", " ", "e", "r", "r", "o", "r", " ", "l", "o", "g", " ", "/", " ", "s", "t", "a", "c", "k", " ", "t", "r", "a", "c", "e", " ", "i", "n", " ", "c", "o", "n", "t", "e", "x", "t", ".", "e", "r", "r", "o", "r", "_", "l", "o", "g", "s", ".">>

N_DIFF_MARKERS ==
    <<"-", " ", "S", "n", "i", "p", "p", "e", "t", " ", "o", "u", "t", "p", "u", "t", " ", "c", "o", "n", "t", "a", "i", "n", "e", "d", " ", "d", "i", "f", "f", " ", "m", "a", "r", "k", "e", "r", "s", ".", " ", "P", "l", "e", "a", "s", "e", " ", "r", "e", "-", "r", "u", "n", " ", "w", "i", "t", "h", " ", "p", "l", "a", "i", "n", " ", "f", "i", "l", "e", " ", "s", "n", "i", "p", "p", "e", "t", "s", " ", "o", "n", "l", "y", ".">>

Q_CONFIRM_PATHS ==
    <<"C", "o", "n", "f", "i", "r", "m", " ", "t", "h", "e", " ", "r", "e", "q", "u", "e", "s", "t", "e", "d", " ", "f", "i", "l", "e", "s", "/", "p", "a", "t", "h", "s", " ", "s", "o", " ", "I", " ", "c", "a", "n", " ", "o", "u", "t", "p", "u", "t", " ", "o", "n", "l", "y", " ", "f", "u", "l", "l", " ", "backquote", "/", "/", " ", "F", "i", "l", "e", ":", "backquote", " ", "b", "l", "o", "c", "k", "s", " ", "(", "n", "o", " ", "d", "i", "f", "f", "s", ")", ".">>

Q_CONFIRM_FILE_LIST ==
    <<"C", "o", "n", "f", "i", "r", "m", " ", "t", "h", "e", " ", "e", "x", "a", "c", "t", " ", "f", "i", "l", "e", " ", "l", "i", "s", "t", "/", "p", "a", "t", "h", "s", " ", "y", "o", "u", " ", "w", "a", "n", "t", " ", "g", "e", "n", "e", "r", "a", "t", "e", "d", " ", "s", "o", " ", "I", " ", "c", "a", "n", " ", "o", "u", "t", "p", "u", "t", " ", "f", "u", "l", "l", " ", "backquote", "/", "/", " ", "F", "i", "l", "e", ":", "backquote", " ", "b", "l", "o", "c", "k", "s", " ", "f", "o", "r", " ", "e", "a", "c", "h", ".">>

N_MISSING_SPRING ==
    <<"-", " ", "S", "n", "i", "p", "p", "e", "t", " ", "o", "u", "t", "p", "u", "t", " ", "i", "s", " ", "m", "i", "s", "s", "i", "n", "g", " ", "e", "x", "p", "l", "i", "c", "i", "t", "l", "y", " ", "r", "e", "q", "u", "e", "s", "t", "e", "d", " ", "S", "p", "r", "i", "n", "g", " ", "B", "o", "o", "t", " ", "c", "o", "m", "p", "o", "n", "e", "n", "t", "s", ":">>

Q_CONFIRM_SPRING ==
    <<"C", "o", "n", "f", "i", "r", "m", " ", "w", "h", "e", "t", "h", "e", "r", " ", "t", "h", "e", "s", "e", " ", "c", "o", "m", "p", "o", "n", "e", "n", "t", "s", " ", "s", "h", "o", "u", "l", "d", " ", "b", "e", " ", "g", "e", "n", "e", "r", "a", "t", "e", "d", " ", "(", "a", "n", "d", " ", "t", "h", "e", "i", "r", " ", "e", "x", "a", "c", "t", " ", "f", "i", "l", "e", "n", "a", "m", "e", "s", "/", "p", "a", "t", "h", "s", ")", ".">>

N_NO_PATCH ==
    <<"-", " ", "U", "n", "a", "b", "l", "e", " ", "t", "o", " ", "p", "r", "o", "d", "u", "c", "e", " ", "a", " ", "v", "a", "l", "i", "d", " ", "u", "n", "i", "f", "i", "e", "d", " ", "d", "i", "f", "f", " ", "p", "a", "t", "c", "h", " ", "f", "r", "o", "m", " ", "t", "h", "e", " ", "p", "r", "o", "v", "i", "d", "e", "d", " ", "i", "n", "p", "u", "t", "s", ".">>

Q_PROVIDE_FILES ==
    <<"P", "l", "e", "a", "s", "e", " ", "p", "r", "o", "v", "i", "d", "e", " ", "t", "h", "e", " ", "r", "e", "l", "e", "v", "a", "n", "t", " ", "f", "i", "l", "e", "(", "s", ")", " ", "i", "n", " ", "c", "o", "n", "t", "e", "x", "t", ".", "f", "i", "l", "e", "s", " ", "(", "p", "a", "t", "h", " ", "+", " ", "c", "o", "n", "t", "e", "n", "t", ")", ".">>

Q_PROVIDE_LOG ==
    <<"I", "f", " ", "t", "h", "i", "s", " ", "i", "s", " ", "a", " ", "b", "u", "g", ",", " ", "i", "n", "c", "l", "u", "d", "e", " ", "t", "h", "e", " ", "f", "u", "l", "l", " ", "e", "r", "r", "o", "r", " ", "l", "o", "g", " ", "/", " ", "s", "t", "a", "c", "k", " ", "t", "r", "a", "c", "e", " ", "i", "n", " ", "c", "o", "n", "t", "e", "x", "t", ".", "e", "r", "r", "o", "r", "_", "l", "o", "g", "s", ".">>

N_GENERATED ==
    <<"-", " ", "G", "e", "n", "e", "r", "a", "t", "e", "d", " ", "a", " ", "p", "a", "t", "c", "h", ".">>

N_TESTS_1 ==
    <<"-", " ", "P", "r", "o", "p", "o", "s", "e", "d", " ", "p", "a", "t", "c", "h", " ", "d", "e", "l", "e", "t", "e", "s", "/", "r", "e", "n", "a", "m", "e", "s", "/", "m", "o", "v", "e", "s", " ", "t", "e", "s", "t", " ", "f", "i", "l", "e", "s", ",", " ", "w", "h", "i", "c", "h", " ", "i", "s", " ", "n", "o", "t", " ", "a", "l", "l", "o", "w", "e", "d", " ", "b", "y", " ", "d", "e", "f", "a", "u", "l", "t", ".">>

N_TESTS_2 ==
    <<"-", " ", "P", "l", "e", "a", "s", "e", " ", "e", "x", "p", "l", "i", "c", "i", "t", "l", "y", " ", "c", "o", "n", "f", "i", "r", "m", " ", "t", "h", "a", "t", " ", "y", "o", "u", " ", "w", "a", "n", "t", " ", "t", "e", "s", "t", "s", " ", "d", "e", "l", "e", "t", "e", "d", "/", "r", "e", "n", "a", "m", "e", "d", "/", "m", "o", "v", "e", "d", ",", " ", "o", "r", " ", "a", "s", "k", " ", "t", "o", " ", "k", "e", "e", "p", "/", "u", "p", "d", "a", "t", "e", " ", "t", "h", "e", "m", ".">>

Q_TESTS ==
    <<"D", "o", " ", "y", "o", "u", " ", "w", "a", "n", "t", " ", "t", "o", " ", "d", "e", "l", "e", "t", "e", "/", "r", "e", "n", "a", "m", "e", "/", "m", "o", "v", "e", " ", "t", "h", "e", " ", "e", "x", "i", "s", "t", "i", "n", "g", " ", "t", "e", "s", "t", " ", "f", "i", "l", "e", "s", "?", " ", "I", "f", " ", "y", "e", "s", ",", " ", "l", "i", "s", "t", " ", "t", "h", "e", " ", "e", "x", "a", "c", "t", " ", "p", "a", "t", "h", "s", ".">>

N_REPORT_OMITTED ==
    <<"-", " ", "N", "o", "t", "e", ":", " ", "R", "e", "p", "o", "r", "t", " ", "o", "m", "i", "t", "t", "e", "d", " ", "d", "u", "e", " ", "t", "o", " ", "f", "i", "l", "e", "/", "p", "a", "t", "h", " ", "i", "n", "c", "o", "n", "s", "i", "s", "t", "e", "n", "c", "y", " ", "w", "i", "t", "h", " ", "t", "h", "e", " ", "p", "r", "o", "d", "u", "c", "e", "d", " ", "d", "i", "f", "f", ".">>

\* the note of the completeness guardrail with the two numbers exchanged
incomplete_note_exchanged(min_blocks, file_blocks) ==
    <<<<"-", " ", "S", "n", "i", "p", "p", "e", "t", " ", "o", "u", "t", "p", "u", "t", " ", "i", "s", " ", "i", "n", "c", "o", "m", "p", "l", "e", "t", "e", " ", "(", "e", "x", "p", "e", "c", "t", "e", "d", " ", ">", "=", " ">>
          \o str_int(file_blocks) \o <<" ", "b", "l", "o", "c", "k", "s", ",", " ", "g", "o", "t", " ">> \o str_int(min_blocks)
          \o <<")", ".">>>>[1]

\* the note of the completeness guardrail
incomplete_note(min_blocks, file_blocks) ==
    <<"-", " ", "S", "n", "i", "p", "p", "e", "t", " ", "o", "u", "t", "p", "u", "t", " ", "i", "s", " ", "i", "n", "c", "o", "m", "p", "l", "e", "t", "e", " ", "f", "o", "r", " ", "e", "x", "p", "e", "c", "t", "e", "d", " ", "d", "o", "m", "a", "i", "n", " ", "+", " ", "u", "s", "a", "g", "e", " ", "f", "i", "l", "e", "s", " ", "(", "e", "x", "p", "e", "c", "t", "e", "d", " ", ">", "=", " ">>
        \o str_int(min_blocks) \o <<" ", "backquote", "/", "/", " ", "F", "i", "l", "e", ":", "backquote", " ", "b", "l", "o", "c", "k", "s", ",", " ", "g", "o", "t", " ">> \o str_int(file_blocks)
        \o <<")", ".">>

\* the snippet branch of invoke after the snippet stage: the guardrails on the
\* generated code, then the final patch and the verification steps
snippet_branch(request, intake, plan, files, code) ==
    LET parsed == parse_snippet(code)
        requested_files == _dedupe_preserve_order(plan.files_to_touch)
        task_for_intent == lower(strip(request.task))
        looks_like_question ==
            \/ contains(task_for_intent, <<"?">>)
            \/ lit_at(task_for_intent, 1, <<"w", "h", "a", "t", " ">>)
            \/ lit_at(task_for_intent, 1, <<"w", "h", "y", " ">>)
            \/ lit_at(task_for_intent, 1, <<"h", "o", "w", " ">>)
            \/ lit_at(task_for_intent, 1, <<"c", "a", "n", " ", "y", "o", "u", " ">>)
            \/ contains(task_for_intent, <<"e", "x", "p", "l", "a", "i", "n">>)
        looks_like_generation_request ==
            any_in(task_for_intent,
                   {<<"g", "e", "n", "e", "r", "a", "t", "e">>, <<"s", "c", "a", "f", "f", "o", "l", "d">>, <<"c", "r", "e", "a", "t", "e", " ">>, <<"w", "r", "i", "t", "e", " ">>, <<"i", "m", "p", "l", "e", "m", "e", "n", "t">>,
                    <<"a", "d", "d", " ">>, <<"r", "e", "m", "o", "v", "e", " ">>, <<"r", "e", "f", "a", "c", "t", "o", "r">>, <<"p", "a", "t", "c", "h">>, <<"d", "i", "f", "f">>})
        file_blocks == Len(parsed.files)
        min_blocks ==
            IF Len(requested_files) >= 2
                THEN max(Len(requested_files), 2)
                ELSE Len(requested_files)
        looks_like_spring ==
            any_in(lower(request.task),
                   {<<"s", "p", "r", "i", "n", "g", " ", "b", "o", "o", "t">>, <<"s", "p", "r", "i", "n", "g", "b", "o", "o", "t">>, <<"@", "r", "e", "s", "t", "c", "o", "n", "t", "r", "o", "l", "l", "e", "r">>,
                    <<"@", "c", "o", "n", "t", "r", "o", "l", "l", "e", "r">>, <<"s", "p", "r", "i", "n", "g", " ", "d", "a", "t", "a">>})
        required_markers ==
            sorted(class_tokens(request.task)) \o sorted(file_tokens(request.task))
        missing == SelectSeq(required_markers, LAMBDA m : ~contains(code, m))
        verification_steps ==
            _clean_verification_steps_final(
                _dedupe_preserve_order(
                    plan.verification_steps \o intake.verification_steps
                        \o <<<<"C", "o", "m", "p", "i", "l", "e", "/", "b", "u", "i", "l", "d", " ", "t", "h", "e", " ", "g", "e", "n", "e", "r", "a", "t", "e", "d", " ", "c", "o", "d", "e">>,
                             <<"R", "u", "n", " ", "t", "h", "e", " ", "p", "r", "o", "v", "i", "d", "e", "d", " ", "e", "n", "t", "r", "y", "p", "o", "i", "n", "t", "/", "e", "x", "a", "m", "p", "l", "e">>>>),
                intake.language, request.task, files)
    IN  IF has_diff_markers(code)
            THEN [exit |-> "diff_markers",
                  response |-> clarify(<<N_DIFF_MARKERS>>, <<Q_CONFIRM_PATHS>>)]
        ELSE IF /\ parsed.is_chat_only
                /\ looks_like_question
                /\ ~looks_like_generation_request
            THEN [exit |-> "chat",
                  response |-> AgentInvokeResponse(
                      "codegen", "ok", <<>>,
                      <<IF parsed.text # <<>> THEN parsed.text ELSE code>>, <<>>)]
        ELSE IF file_blocks < min_blocks
            THEN [exit |-> "incomplete",
                  response |-> clarify(<<incomplete_note(min_blocks, file_blocks)>>,
                                       <<Q_CONFIRM_FILE_LIST>>)]
        ELSE IF looks_like_spring /\ missing # <<>>
            THEN [exit |-> "spring",
                  response |-> clarify(
                      <<N_MISSING_SPRING>>
                          \o [k \in 1..Len(prefix(missing, 8)) |->
                                 <<" ", " ", "-", " ">> \o missing[k]],
                      <<Q_CONFIRM_SPRING>>)]
        ELSE [exit |-> "generated", final_patch |-> code,
              verification_steps |-> verification_steps]

\* the patch branch of invoke without the debug-fix path
patch_branch_implementing(request, intake, plan, files, error_logs, env) ==
    [exit |-> "generated",
     stages |-> <<"implementer", "reviewer", "solid_critic", "reviser">>,
     final_patch |-> run_revise(env.revise_raw, run_patch(env.patch_raw)),
     verification_steps |-> plan.verification_steps,
     review |-> Some(run_review(env.review_data, run_patch(env.patch_raw))),
     solid |-> Some(run_solid_critic(env.solid_data, run_patch(env.patch_raw)))]

\* the patch branch of invoke: the debug-fix path or the implement, review,
\* critique and revise path, then the empty-patch exit and the verification
\* steps
patch_branch(request, intake, plan, files, error_logs, env) ==
    LET use_debug_fix == request.context.debug_fix /\ error_logs # <<>>
        dbg == run_debug_fix(env)
        patch1 == run_patch(env.patch_raw)
        review == IF use_debug_fix THEN dbg.review
                  ELSE run_review(env.review_data, patch1)
        solid == IF use_debug_fix THEN dbg.solid
                 ELSE run_solid_critic(env.solid_data, patch1)
        final_patch == IF use_debug_fix THEN dbg.patch
                       ELSE run_revise(env.revise_raw, patch1)
        verification_steps ==
            _clean_verification_steps_final(
                _dedupe_preserve_order(
                    plan.verification_steps \o intake.verification_steps
                        \o <<<<"R", "u", "n", " ", "u", "n", "i", "t", " ", "t", "e", "s", "t", "s">>, <<"R", "u", "n", " ", "l", "i", "n", "t", "e", "r", "s">>,
                             <<"S", "m", "o", "k", "e", " ", "t", "e", "s", "t", " ", "t", "h", "e", " ", "a", "p", "p">>>>),
                intake.language, request.task, files)
        stages ==
            IF use_debug_fix
                THEN <<"debugger", "patch_writer", "reviewer", "solid_critic">>
                ELSE <<"implementer", "reviewer", "solid_critic", "reviser">>
    IN  IF strip(final_patch) = <<>>
            THEN [exit |-> "empty_patch", stages |-> stages,
                  response |-> clarify(<<N_NO_PATCH>>,
                                       <<Q_PROVIDE_FILES, Q_PROVIDE_LOG>>)]
            ELSE [exit |-> "generated", stages |-> stages,
                  final_patch |-> final_patch,
                  verification_steps |-> verification_steps,
                  review |-> Some(review), solid |-> Some(solid)]

\* the end of invoke after the reporter: the guardrail on test files, the
\* check of the report against the diff, and the response with its two
\* artifacts
final_assembly(request, snippet_mode, final_patch, verification_steps, report_notes) ==
    LET notes0 == IF report_notes # <<>> THEN report_notes ELSE <<N_GENERATED>>
        notes ==
            IF /\ ~snippet_mode
               /\ ~_report_mentions_only_touched_files(
                       notes0, _extract_diff_paths(final_patch))
                THEN <<N_GENERATED, N_REPORT_OMITTED>>
                ELSE notes0
    IN  IF /\ ~snippet_mode
           /\ _patch_deletes_or_moves_tests(final_patch)
           /\ ~_user_explicitly_requested_test_deletion(request.task)
            THEN [exit |-> "test_deletion",
                  response |-> clarify(<<N_TESTS_1, N_TESTS_2>>, <<Q_TESTS>>)]
            ELSE [exit |-> "done",
                  response |-> AgentInvokeResponse(
                      "codegen", "ok",
                      <<PatchArtifact(final_patch),
                        VerificationStepsArtifact(verification_steps)>>,
                      notes, <<>>)]

\* the review and the critique run_report is called with: empty lists in
\* snippet mode, where neither stage ran
report_payload(review, solid) ==
    [review |-> IF review = None THEN ReviewResult(<<>>, <<>>, <<>>, <<>>)
                ELSE review[1],
     solid |-> IF solid = None THEN SolidCriticResult(<<>>, <<>>, <<>>, <<>>)
               ELSE solid[1]]

\* the return of invoke for the outcome r of a branch or of the final assembly
returned(r, stages, snippet_mode, files, report_input) ==
    CodegenReturn(r.response, stages, Some(snippet_mode), r.exit, files,
                  report_input)

\* invoke after generation with the guardrail on test files evaluated before
\* the reporter is called
after_generation_guarded_first(request, env, snippet_mode, files, stages, generated) ==
    IF generated.exit # "generated"
        THEN returned(generated, stages \o generated.stages, snippet_mode,
                      files, None)
    ELSE IF /\ ~snippet_mode
            /\ _patch_deletes_or_moves_tests(generated.final_patch)
            /\ ~_user_explicitly_requested_test_deletion(request.task)
        THEN returned(
                 final_assembly(request, snippet_mode, generated.final_patch,
                                generated.verification_steps, <<>>),
                 stages \o generated.stages, snippet_mode, files, None)
        ELSE returned(
                 final_assembly(request, snippet_mode, generated.final_patch,
                                generated.verification_steps,
                                run_report(env.report_raw)),
                 stages \o generated.stages \o <<"reporter">>, snippet_mode,
                 files,
                 Some(report_payload(generated.review, generated.solid)))

\* invoke after generation: the exit the branch took, or the reporter and the
\* final assembly
after_generation(request, env, snippet_mode, files, stages, generated) ==
    IF generated.exit # "generated"
        THEN returned(generated, stages \o generated.stages, snippet_mode,
                      files, None)
        ELSE returned(
                 final_assembly(request, snippet_mode, generated.final_patch,
                                generated.verification_steps,
                                run_report(env.report_raw)),
                 stages \o generated.stages \o <<"reporter">>, snippet_mode,
                 files,
                 Some(report_payload(generated.review, generated.solid)))

\* the task is taken as pasted code: no context.files and a task that looks
\* like code
pasted_code(request) ==
    /\ request.context.files = <<>>
    /\ strip(request.task) # <<>>
    /\ looks_like_inline_code(request.task)

\* the files of the run without the file of a pasted task
files_of_context(request, intake, inline) == request.context.files

\* the files of the run: the virtual file of a pasted task, or context.files
files_of(request, intake, inline) ==
    IF inline
        THEN <<ContextFile(default_name(intake.language), request.task)>>
        ELSE request.context.files

\* invoke after a resolved intake: the optional project scan, the mode
\* decision, the exit for bugfix and refactor work without files, the planner
\* and the branch of the mode
after_intake(request, env, intake, error_logs, inline) ==
    LET looks_like_debug ==
            \/ error_logs # <<>>
            \/ any_in(lower(request.task),
                      {<<"d", "e", "b", "u", "g">>, <<"t", "r", "a", "c", "e", "b", "a", "c", "k">>, <<"s", "t", "a", "c", "k", " ", "t", "r", "a", "c", "e">>, <<"e", "x", "c", "e", "p", "t", "i", "o", "n">>})
            \/ intake.goal = "bugfix"
        scan == IF request.context.project_scan /\ looks_like_debug
                    THEN <<"scan">> ELSE <<>>
        files == files_of(request, intake, inline)
        snippet_mode == request.context.files = <<>> /\ ~inline
    IN  IF /\ intake.goal \in {"bugfix", "refactor"}
           /\ snippet_mode
           /\ error_logs = <<>>
            THEN CodegenReturn(
                     clarify(<<N_PROVIDE_FILES>>, <<Q_WHICH_FILES, Q_ERROR_LOG>>),
                     <<"intake">> \o scan, Some(snippet_mode), "files_needed",
                     files, None)
            ELSE after_generation(
                     request, env, snippet_mode, files,
                     <<"intake">> \o scan \o <<"planner">>,
                     IF snippet_mode
                         THEN snippet_branch(request, intake, env.plan, files,
                                             run_snippet(env.snippet_raw))
                                  @@ [stages |-> <<"snippet">>,
                                      review |-> None, solid |-> None]
                         ELSE patch_branch(request, intake, env.plan, files,
                                           error_logs, env))

\* invoke after the intake stage without the exit on an intake that asks
after_run_intake_continuing(request, env, intake) ==
    after_intake(request, env, intake, strip(request.context.error_logs),
                 pasted_code(request))

\* invoke after the intake stage: the exit on an intake that asks, else the
\* rest of the pipeline
after_run_intake(request, env, intake) ==
    IF intake.needs_clarification
        THEN CodegenReturn(
                 clarify(<<N_MISSING_INFO>>, prefix(intake.questions, 3)),
                 <<"intake">>, None, "intake", request.context.files, None)
        ELSE after_intake(request, env, intake,
                          strip(request.context.error_logs),
                          pasted_code(request))

\* CodegenAgent.invoke, for what the language model replies to each stage
CodegenAgent_invoke(request, env) ==
    after_run_intake(request, env,
                     run_intake(env.intake_data, request.task, request.context))

\* ------------------------------------------------------------------------
\* The bounds and the inputs of the continuation controller
\* ------------------------------------------------------------------------

\* the identifiers uuid4() may hand out (a chat takes one, a message one)
MaxUuid == 5

\* the identifiers of the long conversation, and the last at which a plan
\* update is taken
ChatMaxUuid == 25
PlanMaxUuid == 5

\* the identifiers up to which the long conversation varies its outcomes
VariedMaxUuid == 2

\* the identifiers of three turns in one chat
RoundsMaxUuid == 7

\* the registry (service_directory/agents.json is configuration): two
\* enabled agents, one registered but disabled; the others are unregistered
Registry ==
    {[agent_id |-> "codegen", enabled |-> TRUE],
     [agent_id |-> "planner", enabled |-> TRUE],
     [agent_id |-> "projplan", enabled |-> FALSE]}

\* a history the caller supplies itself under the key chat_history
CallerHistory ==
    <<[role |-> "user", content |-> NOTE_DONE, created_at |-> isoformat(0),
       routing_meta |-> None]>>

EmptyContext == <<>>
ContextA == [goal |-> "a", files |-> "a"]
ContextB == [goal |-> "b", chat_history |-> CallerHistory, last_patch |-> "mine"]

RouterExecuteRequest(query, chat_id, context, mode, forced_agent_id, persist) ==
    [query |-> query, chat_id |-> chat_id, context |-> context, mode |-> mode,
     forced_agent_id |-> forced_agent_id, persist |-> persist]

\* the chat ids a client can name: none, or a chat of the store
ChatIds == {None} \cup {Some(c) : c \in DOMAIN doc.chats}

\* what the routing-decision source answers: it fails, it asks with a hinted
\* route, or it routes
LlmAsks ==
    LlmReturned(RouterRouteResponse(<<RouteItem("planner", 90, <<>>)>>, TRUE,
                                    <<QUESTION_WHICH>>, None))
LlmRoutes ==
    LlmReturned(RouterRouteResponse(<<RouteItem("codegen", 90, <<>>)>>, FALSE,
                                    <<>>, None))
LlmOutcomes == {LlmRouterError, LlmException, LlmAsks, LlmRoutes}

\* what loading and invoking the agent does: it answers ok with artifacts, it
\* asks for clarification, or its handler raises
EnvOk ==
    [failing |-> {},
     invoke |-> [kind |-> "return",
                 response |-> AgentInvokeResponse(
                     "codegen", "ok",
                     <<Artifact("patch", "p1"), Artifact("project_plan", "plan1")>>,
                     <<NOTE_DONE>>, <<>>)]]
EnvAsks ==
    [failing |-> {},
     invoke |-> [kind |-> "return",
                 response |-> AgentInvokeResponse(
                     "codegen", "needs_clarification", <<>>, <<>>,
                     <<QUESTION_WHICH>>)]]
EnvRaises == [failing |-> {}, invoke |-> [kind |-> "raise"]]
AgentEnvs == {EnvOk, EnvAsks, EnvRaises}

Scenario(req, llm, env) == [req |-> req, llm |-> llm, env |-> env]

\* The requests with what the routing source and the agent do on them:
\* persisted auto requests, persisted forced requests (the routing source is
\* not consulted), a chat id that does not exist, unpersisted requests.
Scenarios ==
    {Scenario(RouterExecuteRequest(qx[1], c, qx[2], "auto", None, TRUE), llm, env) :
        qx \in {<<QUERY_BLANK, ContextA>>, <<QUERY_FIX, ContextB>>},
        c \in ChatIds, llm \in LlmOutcomes, env \in AgentEnvs}
    \cup
    {Scenario(RouterExecuteRequest(QUERY_FIX, c, EmptyContext, "forced", f, TRUE),
              LlmRouterError, env) :
        c \in ChatIds, f \in {None, Some("planner"), Some("projplan")},
        env \in AgentEnvs}
    \cup
    {Scenario(RouterExecuteRequest(QUERY_FIX, Some(0), ContextA, "auto", None, TRUE),
              LlmRoutes, EnvOk)}
    \cup
    {Scenario(RouterExecuteRequest(QUERY_FIX, c, ContextA, "auto", None, FALSE),
              llm, EnvOk) :
        c \in ChatIds, llm \in {LlmAsks, LlmRoutes}}

\* a long conversation: one persisted request that is routed and answered
\* the chat id of a client that stays in its chat
SameChat ==
    IF DOMAIN doc.chats = {} THEN {None} ELSE {Some(c) : c \in DOMAIN doc.chats}

ChatScenarios ==
    {Scenario(RouterExecuteRequest(QUERY_FIX, c, ContextA, "auto", None, TRUE),
              llm, env) :
        c \in SameChat,
        llm \in IF uuid <= VariedMaxUuid THEN {LlmAsks, LlmRoutes} ELSE {LlmRoutes},
        env \in IF uuid <= VariedMaxUuid THEN {EnvOk, EnvAsks} ELSE {EnvOk}}

\* clarification rounds: the routing source or the agent asks, the client
\* answers in the same chat
RoundScenarios ==
    {Scenario(RouterExecuteRequest(qx[1], c, qx[2], "auto", None, TRUE), llm, env) :
        qx \in {<<QUERY_BLANK, ContextA>>, <<QUERY_FIX, ContextB>>},
        c \in SameChat, llm \in {LlmAsks, LlmRoutes}, env \in {EnvOk, EnvAsks}}

\* ------------------------------------------------------------------------
\* The state machine of the continuation controller
\* ------------------------------------------------------------------------

IdleRequest == RouterExecuteRequest(<<>>, None, EmptyContext, "auto", None, FALSE)

GrIdle == [phase |-> "idle"]

RunIdle == [phase |-> "idle"]

CgIdle == [phase |-> "idle"]

\* the threads of the pool that serves the synchronous handlers, and the
\* state in which none of them is in a call: begun and saves count the calls
\* begun and the documents written, log lists the writes
Threads == {"a", "b"}

ThIdle ==
    [of |-> [t \in Threads |-> [pc |-> "idle"]], begun |-> 0, saves |-> 0,
     log |-> <<>>]

InitStore ==
    /\ doc = [chats |-> <<>>, messages_by_chat |-> <<>>]
    /\ now = 0
    /\ uuid = 1
    /\ th = ThIdle
    /\ last = Outcome(IdleRequest, [chats |-> <<>>, messages_by_chat |-> <<>>])

Init ==
    /\ InitStore
    /\ gr = GrIdle
    /\ run = RunIdle
    /\ cg = CgIdle

\* the identifiers a request may take: a chat and two messages
uuids_needed(req) ==
    IF ~req.persist THEN 0 ELSE IF req.chat_id = None THEN 3 ELSE 2

\* the store and the record of the request once the handler is done
Handled(r) ==
    /\ doc' = r.w.doc
    /\ now' = r.w.now
    /\ uuid' = r.w.uuid
    /\ last' = r.out

Execute(s, cap) ==
    /\ uuid + uuids_needed(s.req) <= cap + 1
    /\ Handled(execute(World(doc, now, uuid), s.req, Registry, s.llm, s.env))
    /\ UNCHANGED <<gr, run, cg, th>>

\* DELETE /chats/{chat_id}
DeleteChat(c) ==
    /\ has_chat(World(doc, now, uuid), c)
    /\ LET w == delete_chat(World(doc, now, uuid), c)
       IN  /\ doc' = w.doc
           /\ now' = w.now
           /\ uuid' = w.uuid
    /\ last' = [Outcome(IdleRequest, doc) EXCEPT !.path = "delete_chat"]
    /\ UNCHANGED <<gr, run, cg, th>>

\* POST /chats/{chat_id}/planner/plan: a system message with the plan
UpdatePlannerPlan(c, plan, cap) ==
    /\ uuid + 1 <= cap + 1
    /\ has_chat(World(doc, now, uuid), c)
    /\ LET w == create_message(World(doc, now, uuid), c, "system", <<>>,
                               Some(RoutingMeta("planner", 100, "forced")),
                               <<Artifact("project_plan", plan)>>, None)
       IN  /\ doc' = w.doc
           /\ now' = w.now
           /\ uuid' = w.uuid
    /\ last' = [Outcome(IdleRequest, doc) EXCEPT !.path = "update_planner_plan"]
    /\ UNCHANGED <<gr, run, cg, th>>

Next ==
    \E s \in Scenarios : Execute(s, MaxUuid)

Spec == Init /\ [][Next]_vars

\* A conversation long enough for the history window to slide, with the
\* other writers of a chat: the planner's plan update and the deletion.
NextChat ==
    \/ \E s \in ChatScenarios : Execute(s, ChatMaxUuid)
    \/ \E c \in DOMAIN doc.chats : DeleteChat(c)
    \/ \E c \in DOMAIN doc.chats : UpdatePlannerPlan(c, "plan2", PlanMaxUuid)

SpecChat == Init /\ [][NextChat]_vars

\* Three turns of one chat.
NextRounds ==
    \E s \in RoundScenarios : Execute(s, RoundsMaxUuid)

SpecRounds == Init /\ [][NextRounds]_vars

\* ------------------------------------------------------------------------
\* Resolved turns whose agent answers with notes of every kind: none, plain,
\* blank, with one of the reporter headings, with all five.
\* ------------------------------------------------------------------------

NotesMaxUuid == 5

NOTE_PADDED == <<" ", "d", "o", "n", "e", " ">>

NoteLists ==
    {<<>>,
     <<NOTE_DONE>>,
     <<QUESTION_BLANK>>,
     <<NOTE_PADDED, H_TESTS>>,
     <<H_KEY_POINTS, NOTE_DONE>>,
     <<H_KEY_POINTS, NOTE_DONE, H_WHAT_CHANGED, H_WHY, H_DESIGN, NOTE_PADDED>>,
     <<H_KEY_POINTS, NOTE_PADDED, H_WHAT_CHANGED, H_WHY, H_DESIGN, H_TESTS>>}

EnvNotes(notes) ==
    [failing |-> {},
     invoke |-> [kind |-> "return",
                 response |-> AgentInvokeResponse(
                     "codegen", "ok", <<Artifact("patch", "p1")>>, notes,
                     <<>>)]]

\* persisted requests of one chat: routed to codegen by the routing source,
\* or forced to planner
NoteScenarios ==
    {Scenario(RouterExecuteRequest(QUERY_FIX, c, EmptyContext, "auto", None, TRUE),
              LlmRoutes, EnvNotes(notes)) :
        c \in SameChat, notes \in NoteLists}
    \cup
    {Scenario(RouterExecuteRequest(QUERY_FIX, c, EmptyContext, "forced",
                                   Some("planner"), TRUE),
              LlmRouterError, EnvNotes(notes)) :
        c \in SameChat, notes \in NoteLists}

NextNotes ==
    \E s \in NoteScenarios : Execute(s, NotesMaxUuid)

SpecNotes == Init /\ [][NextNotes]_vars

\* ------------------------------------------------------------------------
\* The guardrail engine on its own: a raw decision, a query, a client
\* selection and a list of agents are drawn, then apply_guardrails or
\* route_hybrid is applied to them.
\* ------------------------------------------------------------------------

RawRoutes ==
    {<<>>,
     <<RouteItem("codegen", 90, QUERY_FIX)>>,
     <<RouteItem("planner", 0, <<>>)>>,
     <<RouteItem("projplan", 100, <<>>), RouteItem("codegen", 50, <<>>)>>,
     <<RouteItem("chatwriter", 100, <<>>)>>}

RawQuestions ==
    {<<>>,
     <<QUESTION_WHICH>>,
     <<QUESTION_BLANK, QUESTION_WHEN, <<>>, QUESTION_WHERE, QUESTION_WHICH>>}

RawDecisions ==
    {RouterRouteResponse(routes, needs, questions, rationale) :
        routes \in RawRoutes, needs \in BOOLEAN, questions \in RawQuestions,
        rationale \in {None, Some(R_FORCED_ROUTE)}}

GuardAgents ==
    {Registry,
     {[agent_id |-> "codegen", enabled |-> FALSE],
      [agent_id |-> "planner", enabled |-> TRUE]},
     {[agent_id |-> "codegen", enabled |-> TRUE],
      [agent_id |-> "planner", enabled |-> FALSE],
      [agent_id |-> "projplan", enabled |-> TRUE]}}

GuardInput(raw, query, selected, agents) ==
    [phase |-> "input", raw |-> raw, query |-> query, selected |-> selected,
     agents |-> agents, result |-> None, changed |-> None, again |-> None,
     force_deterministic |-> None, llm |-> None, llm_called |-> None]

GuardInputs ==
    {GuardInput(raw, query, selected, agents) :
        raw \in RawDecisions,
        query \in {QUERY_BLANK, QUERY_FIX, QUERY_PLAN, QUERY_BOTH, QUERY_MIXED},
        selected \in {None, Some("codegen"), Some("projplan")},
        agents \in GuardAgents}

InitGuard ==
    /\ InitStore
    /\ gr \in GuardInputs
    /\ run = RunIdle
    /\ cg = CgIdle

\* what apply_guardrails returns on the drawn inputs
Guarded(res) ==
    /\ gr' = [gr EXCEPT !.phase = "guarded",
                        !.result = Some(res.response),
                        !.changed = Some(res.changed)]
    /\ UNCHANGED <<doc, now, uuid, last, run, cg, th>>

\* apply_guardrails on the drawn inputs
ApplyGuardrails ==
    /\ gr.phase = "input"
    /\ Guarded(apply_guardrails(gr.raw, gr.query, gr.selected, gr.agents))

\* apply_guardrails on its own output, with the same query, selection and
\* agents
ReapplyGuardrails ==
    /\ gr.phase = "guarded"
    /\ gr' = [gr EXCEPT
                 !.phase = "reguarded",
                 !.again = Some(apply_guardrails(gr.result[1], gr.query, gr.selected,
                                                 gr.agents))]
    /\ UNCHANGED <<doc, now, uuid, last, run, cg, th>>

\* what route_hybrid returns on the drawn inputs
Routed(force_deterministic, llm, rh) ==
    /\ gr' = [gr EXCEPT !.phase = "routed",
                        !.result = Some(rh.response),
                        !.force_deterministic = Some(force_deterministic),
                        !.llm = Some(llm),
                        !.llm_called = Some(rh.llm_called)]
    /\ UNCHANGED <<doc, now, uuid, last, run, cg, th>>

\* route_hybrid on the drawn inputs: the routing source returns the raw
\* decision or raises
RouteHybrid(force_deterministic, llm) ==
    /\ gr.phase = "input"
    /\ Routed(force_deterministic, llm,
              route_hybrid([query |-> gr.query, selected_agent_id |-> gr.selected],
                           force_deterministic, gr.agents, llm))

NextGuard ==
    \/ ApplyGuardrails
    \/ ReapplyGuardrails
    \/ \E force_deterministic \in BOOLEAN :
       \E llm \in {LlmReturned(gr.raw), LlmRouterError, LlmException} :
           RouteHybrid(force_deterministic, llm)

SpecGuard == InitGuard /\ [][NextGuard]_vars

\* ------------------------------------------------------------------------
\* The agent runner on its own: an agent id, a request, and what loading and
\* invoking the agent does are drawn, then invoke_agent is applied to them.
\* ------------------------------------------------------------------------

\* a handler that raises a typed runner error of its own
EnvRaisesTyped(code) ==
    [failing |-> {}, invoke |-> [kind |-> "raise_typed", code |-> code]]

\* the load checks that fail, with what the handler does
RunEnvs ==
    {[e EXCEPT !.failing = failing] :
        e \in {EnvOk, EnvRaises, EnvRaisesTyped("disabled")},
        failing \in SUBSET {LoadChecks[i] : i \in 1..Len(LoadChecks)}}

\* the agent of the path is enabled, disabled or unregistered; the request
\* names it or names another agent
RunInputs ==
    {[phase |-> "input", agent_id |-> agent_id,
      request |-> AgentInvokeRequest(IF same THEN agent_id ELSE "planner",
                                     QUERY_FIX, EmptyContext),
      registry |-> Registry, env |-> env, result |-> None] :
        agent_id \in {"codegen", "projplan", "chatwriter"},
        same \in BOOLEAN,
        env \in RunEnvs}

InitRun ==
    /\ InitStore
    /\ gr = GrIdle
    /\ run \in RunInputs
    /\ cg = CgIdle

\* invoke_agent on the drawn inputs
InvokeAgent ==
    /\ run.phase = "input"
    /\ run' = [run EXCEPT
                  !.phase = "invoked",
                  !.result = Some(invoke_agent(run.agent_id, run.request,
                                               run.registry, run.env))]
    /\ UNCHANGED <<doc, now, uuid, last, gr, cg, th>>

NextRun == InvokeAgent

SpecRun == InitRun /\ [][NextRun]_vars

\* ------------------------------------------------------------------------
\* The three boundaries that invoke an agent, with an agent that fails to
\* load, a handler that raises, and hinted agents that are disabled or
\* unregistered.
\* ------------------------------------------------------------------------

ErrorsMaxUuid == 5

\* the routing source asks and hints at an agent
LlmAsksHinting(agent_id) ==
    LlmReturned(RouterRouteResponse(<<RouteItem(agent_id, 90, <<>>)>>, TRUE,
                                    <<QUESTION_WHICH>>, None))

\* the agent loads and answers, one load check fails, or the handler raises
ErrorEnvs ==
    {EnvOk, EnvRaises}
    \cup {[EnvOk EXCEPT !.failing = {LoadChecks[i]}] : i \in 1..Len(LoadChecks)}
    \cup {EnvRaisesTyped(code) : code \in {"not_found", "disabled", "bad_request"}}

ErrorScenarios ==
    {Scenario(RouterExecuteRequest(QUERY_FIX, c, ContextA, "auto", None, TRUE),
              llm, env) :
        c \in ChatIds,
        llm \in {LlmRoutes} \cup {LlmAsksHinting(a) :
                                     a \in {"planner", "projplan", "chatwriter"}},
        env \in ErrorEnvs}

\* direct calls: into a chat of the store and persisted, without a chat, and
\* into a chat that does not exist
DirectRequests ==
    {AgentInvokeDirectRequest(agent_id, task, EmptyContext, Some(c), TRUE) :
        agent_id \in {"codegen", "projplan", "chatwriter"},
        task \in {QUERY_FIX, QUERY_QNA},
        c \in DOMAIN doc.chats}
    \cup
    {AgentInvokeDirectRequest(agent_id, QUERY_FIX, EmptyContext, None, FALSE) :
        agent_id \in {"codegen", "projplan", "chatwriter"}}
    \cup
    {AgentInvokeDirectRequest("codegen", QUERY_FIX, EmptyContext, Some(0), TRUE)}

\* POST /agents/{agent_id}/invoke
InvokeAgentEndpoint(request, env, cap) ==
    /\ uuid + (IF request.persist /\ request.chat_id # None THEN 2 ELSE 0) <= cap + 1
    /\ Handled(invoke_agent_endpoint(World(doc, now, uuid), request.agent_id, request,
                                     Registry, env))
    /\ UNCHANGED <<gr, run, cg, th>>

NextErrors ==
    \/ \E s \in ErrorScenarios : Execute(s, ErrorsMaxUuid)
    \/ \E request \in DirectRequests : \E env \in ErrorEnvs :
           InvokeAgentEndpoint(request, env, ErrorsMaxUuid)

SpecErrors == Init /\ [][NextErrors]_vars

\* ------------------------------------------------------------------------
\* The codegen pipeline on drawn stage results
\* ------------------------------------------------------------------------

\* TASK_ADD is the Python string "add a parser"
TASK_ADD ==
    <<"a", "d", "d", " ", "a", " ", "p", "a", "r", "s", "e", "r">>

\* TASK_WHY is the Python string "why tabs?"
TASK_WHY ==
    <<"w", "h", "y", " ", "t", "a", "b", "s", "?">>

\* TASK_PASTED is the Python string "def f(): return 1"
TASK_PASTED ==
    <<"d", "e", "f", " ", "f", "(", ")", ":", " ", "r", "e", "t", "u", "r", "n", " ", "1">>

\* TASK_SPRING is the Python string "add UserController spring boot"
TASK_SPRING ==
    <<"a", "d", "d", " ", "U", "s", "e", "r", "C", "o", "n", "t", "r", "o", "l", "l", "e", "r", " ", "s", "p", "r", "i", "n", "g", " ", "b", "o", "o", "t">>

\* TASK_REMOVE_TESTS is the Python string "remove tests"
TASK_REMOVE_TESTS ==
    <<"r", "e", "m", "o", "v", "e", " ", "t", "e", "s", "t", "s">>

\* RAW_CHAT is the Python string "use spaces"
RAW_CHAT ==
    <<"u", "s", "e", " ", "s", "p", "a", "c", "e", "s">>

\* RAW_ONE_FILE is the Python string "// File: a.py\nx = 1"
RAW_ONE_FILE ==
    <<"/", "/", " ", "F", "i", "l", "e", ":", " ", "a", ".", "p", "y", "\n", "x", " ", "=", " ", "1">>

\* RAW_TWO_FILES is the Python string "// File: a.py\nx\n// File: b.py\ny"
RAW_TWO_FILES ==
    <<"/", "/", " ", "F", "i", "l", "e", ":", " ", "a", ".", "p", "y", "\n", "x", "\n", "/", "/", " ", "F", "i", "l", "e", ":", " ", "b", ".", "p", "y", "\n", "y">>

\* RAW_CONTROLLER is the Python string "// File: UserController.java\nclass A {}"
RAW_CONTROLLER ==
    <<"/", "/", " ", "F", "i", "l", "e", ":", " ", "U", "s", "e", "r", "C", "o", "n", "t", "r", "o", "l", "l", "e", "r", ".", "j", "a", "v", "a", "\n", "c", "l", "a", "s", "s", " ", "A", " ", "{", "}">>

\* RAW_DIFF_GIT is the Python string "diff --git a/a.py b/a.py"
RAW_DIFF_GIT ==
    <<"d", "i", "f", "f", " ", "-", "-", "g", "i", "t", " ", "a", "/", "a", ".", "p", "y", " ", "b", "/", "a", ".", "p", "y">>

\* RAW_PLUS_HEADER is the Python string "+++ b/app.py"
RAW_PLUS_HEADER ==
    <<"+", "+", "+", " ", "b", "/", "a", "p", "p", ".", "p", "y">>

\* RAW_HUNK_HEADER is the Python string "@@ -1,3 +1,4 @@"
RAW_HUNK_HEADER ==
    <<"@", "@", " ", "-", "1", ",", "3", " ", "+", "1", ",", "4", " ", "@", "@">>

\* RAW_PLUS_WORD is the Python string "x\n+++b"
RAW_PLUS_WORD ==
    <<"x", "\n", "+", "+", "+", "b">>

\* RAW_HUNK_WORD is the Python string "@@x"
RAW_HUNK_WORD ==
    <<"@", "@", "x">>

\* PATCH_BLANK is the Python string " \n"
PATCH_BLANK ==
    <<" ", "\n">>

\* PATCH_EDIT is the Python string "diff --git a/src/a.py b/src/a.py\n+x\n"
PATCH_EDIT ==
    <<"d", "i", "f", "f", " ", "-", "-", "g", "i", "t", " ", "a", "/", "s", "r", "c", "/", "a", ".", "p", "y", " ", "b", "/", "s", "r", "c", "/", "a", ".", "p", "y", "\n", "+", "x", "\n">>

\* PATCH_DELETES_TEST is the Python string
\* "diff --git a/tests/t.py b/tests/t.py\ndeleted file mode 100644\n"
PATCH_DELETES_TEST ==
    <<"d", "i", "f", "f", " ", "-", "-", "g", "i", "t", " ", "a", "/", "t", "e", "s", "t", "s", "/", "t", ".", "p", "y", " ", "b", "/", "t", "e", "s", "t", "s", "/", "t", ".", "p", "y", "\n", "d", "e", "l", "e", "t", "e", "d", " ", "f", "i", "l", "e", " ", "m", "o", "d", "e", " ", "1", "0", "0", "6", "4", "4", "\n">>

\* RAW_PROSE is the Python string "I cannot produce a diff"
RAW_PROSE ==
    <<"I", " ", "c", "a", "n", "n", "o", "t", " ", "p", "r", "o", "d", "u", "c", "e", " ", "a", " ", "d", "i", "f", "f">>

\* PATCH_RENAMES_TEST is the Python string "diff --git a/src/a.py b/src/a_test.py\nrename from src/a.py\nrename to src/a_test.py"
PATCH_RENAMES_TEST ==
    <<"d", "i", "f", "f", " ", "-", "-", "g", "i", "t", " ", "a", "/", "s", "r", "c", "/", "a", ".", "p", "y", " ", "b", "/", "s", "r", "c", "/", "a", "_", "t", "e", "s", "t", ".", "p", "y", "\n", "r", "e", "n", "a", "m", "e", " ", "f", "r", "o", "m", " ", "s", "r", "c", "/", "a", ".", "p", "y", "\n", "r", "e", "n", "a", "m", "e", " ", "t", "o", " ", "s", "r", "c", "/", "a", "_", "t", "e", "s", "t", ".", "p", "y">>

\* PATCH_LEGACY_DELETES_TEST is the Python string "*** Begin Patch\n*** Delete File: tests/t.py\n*** End Patch"
PATCH_LEGACY_DELETES_TEST ==
    <<"*", "*", "*", " ", "B", "e", "g", "i", "n", " ", "P", "a", "t", "c", "h", "\n", "*", "*", "*", " ", "D", "e", "l", "e", "t", "e", " ", "F", "i", "l", "e", ":", " ", "t", "e", "s", "t", "s", "/", "t", ".", "p", "y", "\n", "*", "*", "*", " ", "E", "n", "d", " ", "P", "a", "t", "c", "h">>

\* PATCH_LEGACY_EDIT is the Python string "*** Begin Patch\n*** Update File: src/a.py\n+x\n*** End Patch"
PATCH_LEGACY_EDIT ==
    <<"*", "*", "*", " ", "B", "e", "g", "i", "n", " ", "P", "a", "t", "c", "h", "\n", "*", "*", "*", " ", "U", "p", "d", "a", "t", "e", " ", "F", "i", "l", "e", ":", " ", "s", "r", "c", "/", "a", ".", "p", "y", "\n", "+", "x", "\n", "*", "*", "*", " ", "E", "n", "d", " ", "P", "a", "t", "c", "h">>

\* PATCH_JSON_LEGACY is the Python string "{"patch": "*** Begin Patch\\n*** Delete File: tests/t.py\\n*** End Patch"}"
PATCH_JSON_LEGACY ==
    <<"{", "\"", "p", "a", "t", "c", "h", "\"", ":", " ", "\"", "*", "*", "*", " ", "B", "e", "g", "i", "n", " ", "P", "a", "t", "c", "h", "\\", "n", "*", "*", "*", " ", "D", "e", "l", "e", "t", "e", " ", "F", "i", "l", "e", ":", " ", "t", "e", "s", "t", "s", "/", "t", ".", "p", "y", "\\", "n", "*", "*", "*", " ", "E", "n", "d", " ", "P", "a", "t", "c", "h", "\"", "}">>

\* PATCH_JSON_GIT is the Python string "{"patch": "diff --git a/src/a.py b/src/a.py\\n+x"}"
PATCH_JSON_GIT ==
    <<"{", "\"", "p", "a", "t", "c", "h", "\"", ":", " ", "\"", "d", "i", "f", "f", " ", "-", "-", "g", "i", "t", " ", "a", "/", "s", "r", "c", "/", "a", ".", "p", "y", " ", "b", "/", "s", "r", "c", "/", "a", ".", "p", "y", "\\", "n", "+", "x", "\"", "}">>

\* PATCH_JSON_PROSE is the Python string "{"patch": "no \\"diff\\" here"}"
PATCH_JSON_PROSE ==
    <<"{", "\"", "p", "a", "t", "c", "h", "\"", ":", " ", "\"", "n", "o", " ", "\\", "\"", "d", "i", "f", "f", "\\", "\"", " ", "h", "e", "r", "e", "\"", "}">>

\* REPORT_BLANK is the Python string " \n"
REPORT_BLANK ==
    <<" ", "\n">>

\* REPORT_TOUCHED is the Python string "- Changed src/a.py  \n\n"
REPORT_TOUCHED ==
    <<"-", " ", "C", "h", "a", "n", "g", "e", "d", " ", "s", "r", "c", "/", "a", ".", "p", "y", " ", " ", "\n", "\n">>

\* REPORT_UNTOUCHED is the Python string "- Changed src/b.py"
REPORT_UNTOUCHED ==
    <<"-", " ", "C", "h", "a", "n", "g", "e", "d", " ", "s", "r", "c", "/", "b", ".", "p", "y">>

\* FINDING is the Python string " off by one "
FINDING ==
    <<" ", "o", "f", "f", " ", "b", "y", " ", "o", "n", "e", " ">>

\* STEP_PYTEST is the Python string "pytest -q"
STEP_PYTEST ==
    <<"p", "y", "t", "e", "s", "t", " ", "-", "q">>

\* STEP_UNIT is the Python string " Run  unit tests"
STEP_UNIT ==
    <<" ", "R", "u", "n", " ", " ", "u", "n", "i", "t", " ", "t", "e", "s", "t", "s">>

\* STEP_MAVEN is the Python string "mvn test"
STEP_MAVEN ==
    <<"m", "v", "n", " ", "t", "e", "s", "t">>

PATH_A ==
    <<"a", ".", "p", "y">>

PATH_B ==
    <<"b", ".", "p", "y">>

PATH_SRC_A ==
    <<"s", "r", "c", "/", "a", ".", "p", "y">>

\* ERROR_LOG_BLANK is the Python string " "
ERROR_LOG_BLANK ==
    <<" ">>

ERROR_LOG ==
    <<"T", "r", "a", "c", "e", "b", "a", "c", "k">>

Tasks == {TASK_ADD, TASK_WHY, TASK_PASTED, TASK_SPRING, TASK_REMOVE_TESTS}

SnippetRaws ==
    {RAW_CHAT, RAW_ONE_FILE, RAW_TWO_FILES, RAW_CONTROLLER, RAW_DIFF_GIT,
     RAW_PLUS_HEADER, RAW_HUNK_HEADER, RAW_PLUS_WORD, RAW_HUNK_WORD}

\* the replies of the implementer, the reviser and the patch writer: every
\* reply of the reviser after each reply of the implementer, and every reply
\* of the patch writer
PatchReplies ==
    {[patch_raw |-> p, revise_raw |-> r, writer_raw |-> RAW_PROSE] :
         p \in {RAW_PROSE, PATCH_EDIT},
         r \in {PATCH_BLANK, PATCH_EDIT, PATCH_DELETES_TEST, PATCH_RENAMES_TEST,
                PATCH_LEGACY_DELETES_TEST, PATCH_LEGACY_EDIT}}
    \cup {[patch_raw |-> PATCH_EDIT, revise_raw |-> PATCH_EDIT, writer_raw |-> w] :
              w \in {PATCH_BLANK, PATCH_EDIT, PATCH_DELETES_TEST,
                     PATCH_LEGACY_DELETES_TEST, PATCH_JSON_LEGACY,
                     PATCH_JSON_GIT, PATCH_JSON_PROSE}}

\* the parsed replies of the reviewer and of the critic: no JSON object, or
\* an object with one finding
ReviewDatas ==
    {<<>>, <<ReviewResult(<<FINDING>>, <<>>, <<>>, <<>>)>>}

SolidDatas ==
    {<<>>, <<SolidCriticResult(<<>>, <<>>, <<FINDING, QUESTION_BLANK>>, <<>>)>>}

Critiques ==
    {[review_data |-> v, solid_data |-> s] :
         v \in ReviewDatas, s \in SolidDatas}

ReportRaws == {REPORT_BLANK, REPORT_TOUCHED, REPORT_UNTOUCHED}

\* the parsed replies of the intake: no JSON object, a request for
\* clarification with four questions and one with none, and resolved intakes
\* with and without a language and a goal of their own
IntakeDatas ==
    {<<>>,
     <<IntakeData(TRUE, <<QUESTION_WHEN, QUESTION_WHERE, QUESTION_WHICH,
                          QUESTION_BLANK, QUESTION_WHEN>>, <<>>, <<>>, <<>>)>>,
     <<IntakeData(TRUE, <<QUESTION_BLANK>>, <<>>, <<>>, <<>>)>>,
     <<IntakeData(FALSE, <<QUESTION_WHEN>>, <<>>, <<"f", "e", "a", "t", "u", "r", "e">>,
                  <<STEP_PYTEST, STEP_UNIT>>)>>,
     <<IntakeData(FALSE, <<>>, <<" ", "J", "a", "v", "a", " ">>, <<" ", "B", "u", "g", "f", "i", "x">>,
                  <<STEP_PYTEST, STEP_UNIT>>)>>,
     <<IntakeData(FALSE, <<>>, <<"c", "o", "b", "o", "l">>, <<"c", "h", "o", "r", "e">>, <<STEP_PYTEST, STEP_UNIT>>)>>}

Plans ==
    {PlanResult(files_to_touch, <<STEP_MAVEN>>) :
         files_to_touch \in {<<>>, <<PATH_A>>, <<PATH_A, PATH_B, PATH_A>>}}

\* runs without context.files: every task and generated text, with and
\* without an error log and the debug_fix flag
SnippetRuns ==
    {[request |-> AgentInvokeRequest(
                      "codegen", task,
                      CodegenContext(<<>>, error_logs, debug_fix, FALSE,
                                     <<>>, <<>>, <<>>)),
      env |-> Pipeline(intake_data, plan, raw, PATCH_EDIT, <<>>, <<>>,
                       PATCH_EDIT, PATCH_EDIT, REPORT_BLANK)] :
         task \in Tasks \ {TASK_REMOVE_TESTS},
         error_logs \in {<<>>, ERROR_LOG},
         debug_fix \in BOOLEAN,
         intake_data \in IntakeDatas,
         plan \in Plans,
         raw \in SnippetRaws}

\* runs with one file in context.files: every reply of the patch stages on
\* either path, every critique and every report
PatchRuns ==
    {[request |-> AgentInvokeRequest(
                      "codegen", task,
                      CodegenContext(<<ContextFile(PATH_SRC_A, <<"x">>)>>,
                                     error_logs, debug_fix, TRUE,
                                     <<>>, <<>>, <<>>)),
      env |-> Pipeline(<<IntakeData(FALSE, <<>>, <<>>, <<"b", "u", "g", "f", "i", "x">>,
                                    <<STEP_PYTEST, STEP_UNIT>>)>>,
                       PlanResult(<<PATH_SRC_A>>, <<STEP_MAVEN>>),
                       RAW_CHAT, reply.patch_raw, critique.review_data,
                       critique.solid_data, reply.revise_raw,
                       reply.writer_raw, report_raw)] :
         task \in {TASK_ADD, TASK_REMOVE_TESTS},
         error_logs \in {<<>>, ERROR_LOG, ERROR_LOG_BLANK},
         debug_fix \in BOOLEAN,
         reply \in PatchReplies,
         critique \in Critiques,
         report_raw \in ReportRaws}

CodegenRuns == SnippetRuns \cup PatchRuns

InitCodegen ==
    /\ InitStore
    /\ gr = GrIdle
    /\ run = RunIdle
    /\ cg \in {[phase |-> "ready", request |-> r.request, env |-> r.env,
                result |-> None] : r \in CodegenRuns}

\* CodegenAgent.invoke on the drawn request and stage results
CodegenInvoke ==
    /\ cg.phase = "ready"
    /\ cg' = [cg EXCEPT !.phase = "done",
                        !.result = Some(CodegenAgent_invoke(cg.request, cg.env))]
    /\ UNCHANGED <<doc, now, uuid, last, gr, run, th>>

NextCodegen == CodegenInvoke

SpecCodegen == InitCodegen /\ [][NextCodegen]_vars

\* ------------------------------------------------------------------------
\* The inputs of the verification-step cleaning: step lists, profile
\* languages, tasks and context files, and the specification that cleans them.
\* ------------------------------------------------------------------------

StepsMaxLen == 2
StepCap == 6

STEP_PYTEST_AGAIN == <<"P", "y", "t", "e", "s", "t", " ", " ", " ", "-", "q", " ">>
STEP_PY_COMPILE == <<"p", "y", "t", "h", "o", "n", " ", "-", "m", " ", "p", "y", "_", "c", "o", "m", "p", "i", "l", "e", " ", "a", ".", "p", "y">>
STEP_COMPILEALL == <<"p", "y", "t", "h", "o", "n", " ", "-", "m", " ", "c", "o", "m", "p", "i", "l", "e", "a", "l", "l", " ", "s", "r", "c">>
STEP_JSHELL == <<"j", "s", "h", "e", "l", "l">>
STEP_LINT == <<"l", "i", "n", "t">>
TASK_MAVEN == <<"c", "r", "e", "a", "t", "e", " ", "c", "l", "a", "s", "s", " ", "w", "i", "t", "h", " ", "m", "v", "n">>
PATH_TEST == <<"t", "e", "s", "t", "s", "/", "t", ".", "p", "y">>

StepPool ==
    {STEP_PYTEST, STEP_PYTEST_AGAIN, STEP_UNIT, STEP_PY_COMPILE,
     STEP_COMPILEALL, STEP_MAVEN, STEP_JSHELL, STEP_LINT}

\* n distinct steps that no rule removes
ManySteps(n) == [k \in 1..n |-> <<"m", "a", "k", "e", " ", "t">> \o str_int(k)]

StepLists ==
    UNION {[1..n -> StepPool] : n \in 0..StepsMaxLen}
        \cup {ManySteps(StepCap + 1),
              ManySteps(StepCap) \o <<STEP_COMPILEALL>>,
              <<STEP_COMPILEALL>> \o ManySteps(StepCap)}

StepLanguages == {<<"p", "y", "t", "h", "o", "n">>, <<"P", "y", "t", "h", "o", "n">>, <<"j", "a", "v", "a">>, <<>>}

StepTasks == {TASK_ADD, TASK_REMOVE_TESTS, TASK_MAVEN}

StepFiles == {<<>>, <<ContextFile(PATH_TEST, <<"x">>)>>}

InitSteps ==
    /\ InitStore
    /\ gr = GrIdle
    /\ run = RunIdle
    /\ cg \in [phase : {"steps"}, steps : StepLists, language : StepLanguages,
               task : StepTasks, files : StepFiles, result : {None}]

\* _clean_verification_steps_final on the drawn steps, profile, task and
\* context
CleanSteps ==
    /\ cg.phase = "steps"
    /\ cg' = [cg EXCEPT !.phase = "cleaned",
                        !.result = Some(_clean_verification_steps_final(
                                       cg.steps, cg.language, cg.task,
                                       cg.files))]
    /\ UNCHANGED <<doc, now, uuid, last, gr, run, th>>

NextSteps == CleanSteps

SpecSteps == InitSteps /\ [][NextSteps]_vars

\* ------------------------------------------------------------------------
\* The inputs of the profile detection: contexts with and without a
\* language, a framework and files of every extension, tasks with and
\* without keywords, and the specification that detects their profile.
\* ------------------------------------------------------------------------

ProfileMaxFiles == 2

TASK_REACT_TS == <<"b", "u", "i", "l", "d", " ", "a", " ", "R", "e", "a", "c", "t", " ", "f", "o", "r", "m", " ", "i", "n", " ", "T", "y", "p", "e", "S", "c", "r", "i", "p", "t">>
TASK_REACT == <<"b", "u", "i", "l", "d", " ", "a", " ", "r", "e", "a", "c", "t", " ", "w", "i", "d", "g", "e", "t">>
TASK_NODE == <<"w", "r", "i", "t", "e", " ", "a", " ", "n", "o", "d", "e", " ", "s", "e", "r", "v", "e", "r">>
PATH_JS == <<"w", "e", "b", "/", "a", "p", "p", ".", "j", "s">>
PATH_JSX == <<"w", "e", "b", "/", "A", "p", "p", ".", "J", "S", "X">>
PATH_TS == <<"w", "e", "b", "/", "a", "p", "p", ".", "t", "s">>
PATH_TSX == <<"w", "e", "b", "/", "A", "p", "p", ".", "t", "s", "x">>
PATH_JAVA == <<"s", "r", "c", "/", "M", "a", "i", "n", ".", "j", "a", "v", "a">>
PATH_CS == <<"s", "r", "c", "/", "P", "r", "o", "g", "r", "a", "m", ".", "c", "s">>
PATH_NO_EXT == <<"M", "a", "k", "e", "f", "i", "l", "e">>

ProfilePaths ==
    {PATH_SRC_A, PATH_JS, PATH_JSX, PATH_TS, PATH_TSX, PATH_JAVA, PATH_CS,
     PATH_NO_EXT}

ProfileFiles ==
    UNION {[1..n -> {ContextFile(p, <<"x">>) : p \in ProfilePaths}] :
               n \in 0..ProfileMaxFiles}

ProfileLanguages == {<<>>, <<" ", " ">>, <<"j", "a", "v", "a">>, <<" ", "P", "y", "t", "h", "o", "n", " ">>}

ProfileFrameworks == {<<>>, <<"R", "e", "a", "c", "t">>}

ProfileTasks == {TASK_ADD, TASK_SPRING, TASK_REACT_TS, TASK_REACT, TASK_NODE}

InitProfile ==
    /\ InitStore
    /\ gr = GrIdle
    /\ run = RunIdle
    /\ cg \in {[phase |-> "profile",
                context |-> CodegenContext(files, <<>>, FALSE, FALSE,
                                           language, framework, <<>>),
                task |-> task, result |-> None] :
                   files \in ProfileFiles, language \in ProfileLanguages,
                   framework \in ProfileFrameworks, task \in ProfileTasks}

\* detect_profile on the drawn context and task
DetectProfile ==
    /\ cg.phase = "profile"
    /\ cg' = [cg EXCEPT !.phase = "profiled",
                        !.result = Some(detect_profile(cg.context, cg.task))]
    /\ UNCHANGED <<doc, now, uuid, last, gr, run, th>>

NextProfile == DetectProfile

SpecProfile == InitProfile /\ [][NextProfile]_vars

\* ------------------------------------------------------------------------
\* Store operations on concurrent threads.  The handlers are synchronous
\* functions served from a thread pool, and every store operation reads the
\* whole document (_load), changes its copy and writes the whole document
\* back (_save) without a lock: a call is two steps, and the steps of two
\* calls interleave.
\* ------------------------------------------------------------------------

RaceMaxCalls == 4

\* the pending continuation of the n-th call: each call stores a query of
\* its own
PendingOfCall(n) ==
    PendingContinuation("planner", QUERY_PLAN \o str_int(n), EmptyContext)

\* the store operations a thread may call, on the chats the document holds
StoreCalls ==
    {[op |-> "create_chat", title |-> NEW_CHAT_TITLE]}
        \cup {[op |-> "create_message", chat_id |-> c, content |-> QUERY_FIX] :
                  c \in DOMAIN doc.chats}
        \cup {[op |-> "set_pending_continuation", chat_id |-> c, pending |-> p] :
                  c \in DOMAIN doc.chats,
                  p \in {None, Some(PendingOfCall(th.begun + 1))}}

\* the world a store operation leaves when it works on the document it loaded
store_call(w, call) ==
    IF call.op = "create_chat" THEN create_chat(w, call.title).w
    ELSE IF call.op = "create_message"
        THEN create_message(w, call.chat_id, "user", call.content, None, <<>>, None)
    ELSE set_pending_continuation(w, call.chat_id, call.pending)

\* the first step of a store operation: doc = self._load().  seen is the
\* number of documents written before the read
Load(t, call) ==
    /\ th.of[t].pc \in {"idle", "returned"}
    /\ th.begun < RaceMaxCalls
    /\ th' = [th EXCEPT !.of[t] = [pc |-> "loaded", call |-> call,
                                   local |-> doc, seen |-> th.saves],
                        !.begun = @ + 1]
    /\ UNCHANGED <<doc, now, uuid, last, gr, run, cg>>

\* a save under a lock: the change is made to the document as it is when
\* the call writes, and not to the copy the call loaded
Save_locked(t) ==
    /\ th.of[t].pc = "loaded"
    /\ LET w == store_call(World(doc, now, uuid), th.of[t].call)
       IN  /\ doc' = w.doc
           /\ now' = w.now
           /\ uuid' = w.uuid
           /\ th' = [th EXCEPT !.of[t] = [pc |-> "returned"],
                               !.saves = @ + 1,
                               !.log = Append(@, [thread |-> t,
                                                  call |-> th.of[t].call,
                                                  seen |-> th.of[t].seen,
                                                  wrote |-> uuid])]
    /\ UNCHANGED <<last, gr, run, cg>>

\* the rest of the operation: the change of the loaded copy and
\* self._save(doc), which replaces the file by the copy.  th.log keeps, for
\* each document written, the call, its thread, the number of documents
\* written before its read, and the identifier of the chat or message it
\* created
Save(t) ==
    /\ th.of[t].pc = "loaded"
    /\ LET w == store_call(World(th.of[t].local, now, uuid), th.of[t].call)
       IN  /\ doc' = w.doc
           /\ now' = w.now
           /\ uuid' = w.uuid
           /\ th' = [th EXCEPT !.of[t] = [pc |-> "returned"],
                               !.saves = @ + 1,
                               !.log = Append(@, [thread |-> t,
                                                  call |-> th.of[t].call,
                                                  seen |-> th.of[t].seen,
                                                  wrote |-> uuid])]
    /\ UNCHANGED <<last, gr, run, cg>>

NextRace ==
    \E t \in Threads :
        \/ \E call \in StoreCalls : Load(t, call)
        \/ Save(t)

InitRace ==
    /\ InitStore
    /\ gr = GrIdle
    /\ run = RunIdle
    /\ cg = CgIdle

SpecRace == InitRace /\ [][NextRace]_vars

\* ------------------------------------------------------------------------
\* Persisted turns that keep arriving: every chat of the store goes on
\* receiving turns, whatever the routing source and the agent do.
\* ------------------------------------------------------------------------

LiveMaxUuid == 5

\* persisted turns on a chat of the store or on a new one: the routing source
\* routes, or asks hinting at an enabled or at a disabled agent; the agent
\* answers or raises
LiveScenarios ==
    {Scenario(RouterExecuteRequest(query, c, EmptyContext, "auto", None, TRUE),
              llm, env) :
        query \in {QUERY_FIX, QUERY_PLAN},
        c \in ChatIds,
        llm \in {LlmRoutes, LlmAsksHinting("planner"), LlmAsksHinting("projplan")},
        env \in {EnvOk, EnvRaises}}

\* the chat the turn names holds a pending continuation
NamesPendingChat(s) ==
    /\ s.req.chat_id # None
    /\ doc.chats[s.req.chat_id[1]].pending_continuation # None

\* a turn arrives when no other request is in flight, and a thread of the
\* pool runs execute on it.  The identifiers are capped for the turns that
\* start something new only: the answer to a pending continuation always
\* arrives
Arrive(t, s) ==
    /\ \A u \in Threads : th.of[u].pc = "idle"
    /\ NamesPendingChat(s) \/ uuid + uuids_needed(s.req) <= LiveMaxUuid + 1
    /\ Handled(execute(World(doc, now, uuid), s.req, Registry, s.llm, s.env))
    /\ th' = [th EXCEPT !.of[t] = [pc |-> "responding"]]
    /\ UNCHANGED <<gr, run, cg>>

\* the response, or the error, goes back to the client
Respond(t) ==
    /\ th.of[t].pc = "responding"
    /\ th' = [th EXCEPT !.of[t] = [pc |-> "idle"]]
    /\ UNCHANGED <<doc, now, uuid, last, gr, run, cg>>

NextLive ==
    \E t \in Threads :
        \/ \E s \in LiveScenarios : Arrive(t, s)
        \/ Respond(t)

\* a handler that was called returns
HandlersReturn == \A t \in Threads : WF_vars(Respond(t))

SpecLive == Init /\ [][NextLive]_vars /\ HandlersReturn

\* ------------------------------------------------------------------------
\* api/v1/router.py, execute on concurrent threads.  The handler is a plain
\* def served from the thread pool; it reads the chat and its pending
\* continuation at lines 73-106 and acts on what it read from line 107 on
\* (the re-invocation, the two messages, the clearing at 181).
\* ------------------------------------------------------------------------

TurnsMaxUuid == 7

\* persisted requests without a chat id or naming a chat of the store; the
\* routing source asks or routes, the agent answers or asks
TurnsScenarios ==
    {Scenario(RouterExecuteRequest(query, c, EmptyContext, "auto", None, TRUE),
              llm, env) :
        query \in {QUERY_FIX, QUERY_PLAN}, c \in ChatIds,
        llm \in {LlmAsks, LlmRoutes}, env \in {EnvOk, EnvAsks}}

\* the threads that have read and not yet acted
InFlight == {t \in Threads : th.of[t].pc = "read"}

\* lines 64-106: the chat is ensured and its pending continuation is read
ExecuteRead(t, s) ==
    /\ th.of[t].pc \in {"idle", "done"}
    /\ uuid + uuids_needed(s.req) + 2 * Cardinality(InFlight \ {t})
           <= TurnsMaxUuid + 1
    /\ LET w0 == World(doc, now, uuid)
           e == _ensure_chat_id_for_persist(w0, s.req.chat_id, s.req.query)
           pending == IF e.chat_id # None
                          THEN get_chat(e.w, e.chat_id[1]).pending_continuation
                          ELSE None
       IN  /\ doc' = e.w.doc
           /\ now' = e.w.now
           /\ uuid' = e.w.uuid
           /\ th' = [th EXCEPT !.of[t] =
                         [pc |-> "read", scenario |-> s, e |-> e,
                          before |-> doc, pending |-> pending,
                          seen |-> th.saves]]
    /\ UNCHANGED <<last, gr, run, cg>>

\* what the thread leaves behind when its handler has returned
Done(t, r) ==
    [pc |-> "done", chat_id |-> th.of[t].e.chat_id,
     pending |-> th.of[t].pending, seen |-> th.of[t].seen,
     finished |-> th.saves + 1, path |-> r.out.path]

\* the same, reading the pending continuation again when it acts
ExecuteFinish_rereading(t) ==
    /\ th.of[t].pc = "read"
    /\ LET mine == th.of[t]
           req == mine.scenario.req
           w == World(doc, now, uuid)
           out0 == [Outcome(req, mine.before) EXCEPT
                        !.ensured_chat_id = mine.e.chat_id,
                        !.created = mine.e.created]
           pending == IF mine.e.chat_id # None
                          THEN get_chat(w, mine.e.chat_id[1]).pending_continuation
                          ELSE None
           r == IF mine.e.status # 200 THEN
                    [w |-> w, out |-> [out0 EXCEPT !.status = mine.e.status,
                                                   !.path = "chat_not_found"]]
                ELSE IF pending # None THEN
                    execute_continuation(w, req, mine.e.chat_id, pending[1],
                                         Registry, mine.scenario.env, out0)
                ELSE
                    execute_fresh(w, req, mine.e.chat_id, Registry,
                                  mine.scenario.llm, mine.scenario.env, out0)
       IN  /\ Handled(r)
           /\ th' = [th EXCEPT !.of[t] = Done(t, r), !.saves = @ + 1]
    /\ UNCHANGED <<gr, run, cg>>

\* lines 107-552: the handler acts on the pending continuation it read
ExecuteFinish(t) ==
    /\ th.of[t].pc = "read"
    /\ LET mine == th.of[t]
           req == mine.scenario.req
           w == World(doc, now, uuid)
           out0 == [Outcome(req, mine.before) EXCEPT
                        !.ensured_chat_id = mine.e.chat_id,
                        !.created = mine.e.created]
           r == IF mine.e.status # 200 THEN
                    [w |-> w, out |-> [out0 EXCEPT !.status = mine.e.status,
                                                   !.path = "chat_not_found"]]
                ELSE IF mine.pending # None THEN
                    execute_continuation(w, req, mine.e.chat_id, mine.pending[1],
                                         Registry, mine.scenario.env, out0)
                ELSE
                    execute_fresh(w, req, mine.e.chat_id, Registry,
                                  mine.scenario.llm, mine.scenario.env, out0)
       IN  /\ Handled(r)
           /\ th' = [th EXCEPT !.of[t] = Done(t, r), !.saves = @ + 1]
    /\ UNCHANGED <<gr, run, cg>>

NextTurns ==
    \E t \in Threads :
        \/ \E s \in TurnsScenarios : ExecuteRead(t, s)
        \/ ExecuteFinish(t)

SpecTurns == Init /\ [][NextTurns]_vars

\* ------------------------------------------------------------------------
\* Requests that do not ask for persistence, on a store that persisted turns
\* have filled.
\* ------------------------------------------------------------------------

FrameMaxUuid == 5

\* persisted turns that fill the store, and unpersisted requests of every
\* kind: with and without a chat id, with an unknown one, auto and forced,
\* with every answer of the routing source and of the agent
FrameScenarios ==
    {Scenario(RouterExecuteRequest(QUERY_FIX, c, ContextA, "auto", None, TRUE),
              llm, env) :
        c \in ChatIds, llm \in {LlmAsks, LlmRoutes}, env \in {EnvOk, EnvAsks}}
    \cup
    {Scenario(RouterExecuteRequest(query, c, ContextA, "auto", None, FALSE),
              llm, env) :
        query \in {QUERY_FIX, QUERY_BOTH},
        c \in ChatIds \cup {Some(0)}, llm \in LlmOutcomes, env \in AgentEnvs}
    \cup
    {Scenario(RouterExecuteRequest(QUERY_FIX, c, EmptyContext, "forced", f, FALSE),
              LlmRouterError, env) :
        c \in ChatIds, f \in {None, Some("planner"), Some("projplan")},
        env \in AgentEnvs}

NextFrame == \E s \in FrameScenarios : Execute(s, FrameMaxUuid)

SpecFrame == Init /\ [][NextFrame]_vars

\* ------------------------------------------------------------------------
\* The properties.  last is what the last request did: last.before is the
\* document it found, doc the document it left.
\* ------------------------------------------------------------------------

\* the request returned a response
Answered == last.status = 200 /\ last.response # None

\* the route decision the response carries
Decision == last.response[1].route_response

\* the chat the request was handled in, and the chat it named
TurnChat == last.ensured_chat_id[1]
NamedChat == last.req.chat_id[1]

\* the request named a chat that held a pending continuation
HeldPending ==
    /\ last.req.chat_id # None
    /\ NamedChat \in DOMAIN last.before.chats
    /\ last.before.chats[NamedChat].pending_continuation # None

PendingBefore == last.before.chats[NamedChat].pending_continuation[1]

ContinuationPaths == {"continuation", "continuation_error"}

\* the request asked for clarification, by its route decision or its agent
EndsInClarification ==
    \/ Decision.needs_clarification
    \/ /\ last.agent_response # None
       /\ last.agent_response[1].status = "needs_clarification"

\* C1, as amended: a persisted turn that is not a continuation and ends in
\* needs_clarification leaves a pending continuation with the hinted or the
\* invoked agent, the verbatim query and the verbatim context, when the route
\* decision carries a hinted route or when the invoked agent asked; a route
\* decision that asks without a route leaves no pending continuation, and so
\* does a continuation turn whose agent asks again.
C1_PendingStoredWhenHinted ==
    (last.req.persist /\ Answered) =>
        LET p == doc.chats[TurnChat].pending_continuation
            verbatim(a) == Some([agent_id |-> a,
                                 original_query |-> last.req.query,
                                 context_snapshot |-> last.req.context])
        IN  /\ (last.path = "route_clarification" /\ Decision.routes # <<>>)
                   => p = verbatim(Decision.routes[1].agent_id)
            /\ (last.path = "route_clarification" /\ Decision.routes = <<>>)
                   => p = None
            /\ last.path = "agent_clarification"
                   => p = verbatim(last.invoked[1].agent_id)
            /\ last.path = "continuation" => p = None

\* C1 as stated: every persisted turn that ends in needs_clarification, with
\* or without a hinted route, leaves a pending continuation with the verbatim
\* query and context.
C1_PendingStoredAlways ==
    (last.req.persist /\ Answered /\ EndsInClarification) =>
        LET p == doc.chats[TurnChat].pending_continuation
        IN  /\ p # None
            /\ p[1].original_query = last.req.query
            /\ p[1].context_snapshot = last.req.context

\* the agent of a routed turn asked, and the chat holds the untrimmed query
C1_AgentAsked ==
    /\ last.path = "agent_clarification"
    /\ last.req.query = QUERY_FIX
    /\ doc.chats[TurnChat].pending_continuation
           = Some([agent_id |-> "codegen", original_query |-> QUERY_FIX,
                   context_snapshot |-> ContextB])

\* C2, as amended: a persisted turn for a chat that holds a pending
\* continuation invokes the pending agent with the task "ORIGINAL USER
\* REQUEST:\n" O "\n\nUSER CLARIFICATION ANSWER:\n" A "\n" when the trimmed
\* answer A is not empty, and with the task ending "USER CLARIFICATION
\* ANSWER:\n" when it is empty; the context is the snapshot merged with the
\* request's context, the request's keys winning.  Only persisted turns do so.
C2_ContinuationRequest ==
    /\ (last.req.persist /\ HeldPending) => last.path \in ContinuationPaths
    /\ last.path \in ContinuationPaths =>
        LET p == PendingBefore
            O == IF strip(p.original_query) = <<>> THEN MISSING_ORIGINAL
                 ELSE strip(p.original_query)
            A == strip(last.req.query)
            inv == last.invoked[1]
        IN  /\ last.req.persist
            /\ inv.agent_id = p.agent_id
            /\ inv.task = IF A # <<>>
                              THEN ORIGINAL_HEADER \o O \o <<"\n", "\n">>
                                   \o ANSWER_HEADER \o A \o <<"\n">>
                              ELSE ORIGINAL_HEADER \o O \o <<"\n", "\n">>
                                   \o ANSWER_HEADER
            /\ DOMAIN inv.context
                   = (DOMAIN p.context_snapshot) \cup (DOMAIN last.req.context)
            /\ \A k \in DOMAIN inv.context :
                   inv.context[k] = IF k \in DOMAIN last.req.context
                                        THEN last.req.context[k]
                                        ELSE p.context_snapshot[k]

\* C2 as stated: every turn for a chat that holds a pending continuation
\* invokes the pending agent with exactly "ORIGINAL USER REQUEST:\n" O
\* "\n\nUSER CLARIFICATION ANSWER:\n" A "\n".
C2_ExactTaskOnEveryTurn ==
    (HeldPending /\ last.path # "none") =>
        LET p == PendingBefore
            O == IF strip(p.original_query) = <<>> THEN MISSING_ORIGINAL
                 ELSE strip(p.original_query)
            A == strip(last.req.query)
        IN  /\ last.invoked # None
            /\ last.invoked[1].agent_id = p.agent_id
            /\ last.invoked[1].task = ORIGINAL_HEADER \o O \o <<"\n", "\n">>
                                      \o ANSWER_HEADER \o A \o <<"\n">>

\* a blank original query is answered, with a context that overlaps the
\* snapshot's
C2_PlaceholderAnswered ==
    /\ last.path = "continuation"
    /\ strip(PendingBefore.original_query) = <<>>
    /\ PendingBefore.context_snapshot = ContextA
    /\ last.req.query = QUERY_FIX
    /\ last.req.context = ContextB

\* C3: a persisted request without a chat id creates exactly one chat; the
\* chat exists whatever the request then does, its messages are written under
\* it and after it, no other chat is touched, and every response reports it.
C3_SingleChatId ==
    (last.req.persist /\ last.req.chat_id = None) =>
        LET c == last.created[1]
            msgs == doc.messages_by_chat[c]
        IN  /\ Len(last.created) = 1
            /\ c \notin DOMAIN last.before.chats
            /\ DOMAIN doc.chats = (DOMAIN last.before.chats) \cup {c}
            /\ last.ensured_chat_id = Some(c)
            /\ \A o \in DOMAIN last.before.chats :
                   /\ doc.chats[o] = last.before.chats[o]
                   /\ doc.messages_by_chat[o] = last.before.messages_by_chat[o]
            /\ Answered =>
                   /\ last.response[1].chat_id = Some(c)
                   /\ Len(msgs) = 2
                   /\ \A i \in 1..Len(msgs) :
                          /\ msgs[i].chat_id = c
                          /\ msgs[i].created_at > doc.chats[c].created_at
            /\ ~Answered => msgs = <<>>

\* a second chat is created by a request whose agent asks
C3_SecondChat ==
    /\ last.req.persist
    /\ last.req.chat_id = None
    /\ DOMAIN last.before.chats # {}
    /\ last.path = "agent_clarification"
    /\ last.response[1].chat_id = Some(last.created[1])

C5_ContinuationClearsPending ==
    /\ last.path = "continuation" =>
           /\ Answered
           /\ last.agent_response # None
           /\ doc.chats[TurnChat].pending_continuation = None
           /\ ~Decision.needs_clarification
    /\ ( /\ last.req.persist
         /\ last.req.chat_id # None
         /\ NamedChat \in DOMAIN last.before.chats
         /\ last.before.chats[NamedChat].pending_continuation = None )
       => /\ last.path \notin ContinuationPaths
          /\ last.route_response # None
          /\ last.req.mode = "auto" => last.llm_called

\* the turn after a continuation in which the agent asked again: the chat's
\* fourth message is that continuation's answer, and the turn is routed
C5_RoutedAfterDroppedRound ==
    /\ last.req.persist
    /\ last.req.chat_id # None
    /\ NamedChat \in DOMAIN last.before.chats
    /\ LET msgs == last.before.messages_by_chat[NamedChat]
       IN  /\ Len(msgs) = 4
           /\ msgs[4].routing_meta # None
           /\ msgs[4].routing_meta[1].mode = "forced"
           /\ msgs[4].content = NO_NOTES
    /\ last.before.chats[NamedChat].pending_continuation = None
    /\ last.path = "resolved"
    /\ last.llm_called

\* C6: a continuation turn does not consult the routing source; it invokes the
\* pending continuation's agent, whatever the request's mode and forced agent,
\* and the assistant message it stores records that agent with mode forced and
\* confidence 1.0.
C6_ContinuationSkipsRouter ==
    last.path \in ContinuationPaths =>
        LET p == PendingBefore
            msgs == doc.messages_by_chat[NamedChat]
        IN  /\ ~last.llm_called
            /\ last.invoked # None
            /\ last.invoked[1].agent_id = p.agent_id
            /\ last.path = "continuation_error" => last.route_response = None
            /\ last.path = "continuation" =>
                   /\ Len(msgs) = Len(last.before.messages_by_chat[NamedChat]) + 2
                   /\ msgs[Len(msgs)].role = "assistant"
                   /\ msgs[Len(msgs)].routing_meta
                          = Some([agent_id |-> p.agent_id, confidence |-> 100,
                                  mode |-> "forced"])
                   /\ Decision.routes[1].agent_id = p.agent_id

\* a continuation turn that forces another agent than the pending one
C6_ForcedOtherAgent ==
    /\ last.path = "continuation"
    /\ last.req.mode = "forced"
    /\ last.req.forced_agent_id # None
    /\ last.req.forced_agent_id[1] # PendingBefore.agent_id

\* the request invoked an agent on a chat with an id
InvokedOnChat ==
    /\ last.invoked # None
    /\ (last.ensured_chat_id # None \/ last.req.chat_id # None)

\* C7 as stated: every invocation made on a chat with an id, the one of a
\* continuation turn included, passes a context that holds chat_history.
C7_EveryInvocationEnriched ==
    InvokedOnChat => "chat_history" \in DOMAIN last.invoked[1].context

\* C8: on an invocation after a fresh route the enriched context maps every
\* key of the request's context to the caller's value, adds only memory keys
\* that were absent, and leaves the caller's context object as it was.
C8_EnrichmentKeepsCallerKeys ==
    (last.invoked # None /\ last.path \notin ContinuationPaths) =>
        LET ctx == last.invoked[1].context
        IN  /\ (DOMAIN last.req.context) \subseteq (DOMAIN ctx)
            /\ \A k \in DOMAIN last.req.context : ctx[k] = last.req.context[k]
            /\ (DOMAIN ctx) \ (DOMAIN last.req.context)
                   \subseteq {"chat_history", "last_project_plan", "last_risks",
                              "last_patch", "last_snippet", "last_notes"}
            /\ last.context_after = last.req.context

\* the caller supplies chat_history and last_patch to a chat that has stored
\* a patch and a plan: its values are kept and the plan is added
C8_CallerKeysOverStoredPatch ==
    /\ last.path = "resolved"
    /\ last.req.context = ContextB
    /\ last.req.chat_id # None
    /\ \E i \in 1..Len(last.before.messages_by_chat[NamedChat]) :
           last.before.messages_by_chat[NamedChat][i].artifacts
               = <<Artifact("patch", "p1"), Artifact("project_plan", "plan1")>>
    /\ last.invoked[1].context.last_patch = "mine"
    /\ last.invoked[1].context.chat_history = CallerHistory
    /\ last.invoked[1].context.last_project_plan = "plan1"

\* one step keeps the messages of every surviving chat as a prefix, in
\* creation order; only the deletion removes a chat; the history a request
\* derives is the last min(20, n) of the n messages it found
C9_Step ==
    /\ \A c \in (DOMAIN doc.chats) \cap (DOMAIN doc'.chats) :
           LET old == doc.messages_by_chat[c]
               new == doc'.messages_by_chat[c]
           IN  /\ Len(old) <= Len(new)
               /\ SubSeq(new, 1, Len(old)) = old
               /\ \A i \in 1..(Len(new) - 1) :
                      new[i].created_at < new[i + 1].created_at
    /\ (DOMAIN doc.chats) \ (DOMAIN doc'.chats) # {} => last'.path = "delete_chat"
    /\ last'.history # None =>
           LET c == last'.ensured_chat_id[1]
               msgs == IF c \in DOMAIN doc.messages_by_chat
                           THEN doc.messages_by_chat[c] ELSE <<>>
               n == Len(msgs)
               k == IF n < 20 THEN n ELSE 20
               h == last'.history[1]
           IN  /\ Len(h) = k
               /\ \A i \in 1..k :
                      h[i] = [role |-> msgs[n - k + i].role,
                              content |-> msgs[n - k + i].content,
                              created_at |-> [iso |-> msgs[n - k + i].created_at],
                              routing_meta |-> msgs[n - k + i].routing_meta]
               /\ "chat_history" \notin DOMAIN last'.req.context =>
                      last'.invoked[1].context.chat_history = h

GuardedShape(r) ==
    /\ r.needs_clarification =>
           /\ Len(r.routes) <= 1
           /\ Len(r.clarifying_questions) \in 1..2
           /\ \A i \in 1..Len(r.clarifying_questions) :
                  strip(r.clarifying_questions[i]) # <<>>
    /\ ~r.needs_clarification =>
           /\ Len(r.routes) = 1
           /\ r.clarifying_questions = <<>>
           /\ r.routes[1].confidence \in 0..100

\* C10: every decision apply_guardrails returns, and every decision
\* route_hybrid returns, has at most one route and one or two non-empty
\* clarifying questions when needs_clarification is true, and exactly one
\* route, no clarifying question and a confidence within [0, 1] when it is
\* false.
C10_GuardedDecisionShape ==
    gr.phase \in {"guarded", "routed"} => GuardedShape(gr.result[1])

\* a raw decision that asks five questions, blank ones among them, over two
\* routes comes back with one route and the first two questions that are not
\* blank, trimmed
C10_QuestionsCapped ==
    /\ gr.phase = "guarded"
    /\ gr.query = QUERY_BLANK
    /\ gr.raw.needs_clarification
    /\ Len(gr.raw.clarifying_questions) = 5
    /\ Len(gr.raw.routes) = 2
    /\ Len(gr.result[1].routes) = 1
    /\ gr.result[1].clarifying_questions = <<strip(QUESTION_WHEN), QUESTION_WHERE>>

\* the agents of the guardrail run that are enabled
EnabledIds == {e.agent_id : e \in {a \in gr.agents : a.enabled}}

\* the signals the query of the guardrail run contains
QuerySignals ==
    [code |-> \E n \in code_signals : contains(lower(gr.query), n),
     plan |-> \E n \in plan_signals : contains(lower(gr.query), n),
     action |-> \E n \in code_action_verbs : contains(lower(gr.query), n),
     artifact |-> \E n \in code_artifacts : contains(lower(gr.query), n)]

\* the decision of the conflict rule: the two fixed questions, the fixed
\* rationale, at most the first proposed route
ConflictDecision ==
    RouterRouteResponse(prefix(gr.raw.routes, 1), TRUE,
                        <<Q_CONFLICT_1, Q_CONFLICT_2>>, Some(R_CONFLICT))

C12_RoutedAgentEnabled ==
    (gr.phase = "guarded" /\ ~gr.result[1].needs_clarification)
        => gr.result[1].routes[1].agent_id \in EnabledIds

\* the conflict rule applies: both signals with the verb and artifact pair
ConflictApplies ==
    LET s == QuerySignals IN s.code /\ s.plan /\ s.action /\ s.artifact

\* C13: when neither the conflict rule nor the upstream-clarification rule
\* applies and the caller selected an agent id, the result is exactly one
\* route to the selected agent with confidence 0.95 and needs_clarification
\* false if the id is in the enabled set, whatever routes the raw decision
\* proposed, and a clarification with zero routes if it is not.
C13_ClientOverride ==
    (/\ gr.phase = "guarded"
     /\ gr.selected # None
     /\ ~gr.raw.needs_clarification
     /\ ~ConflictApplies)
        => IF gr.selected[1] \in EnabledIds
           THEN /\ ~gr.result[1].needs_clarification
                /\ Len(gr.result[1].routes) = 1
                /\ gr.result[1].routes[1].agent_id = gr.selected[1]
                /\ gr.result[1].routes[1].confidence = 95
           ELSE /\ gr.result[1].needs_clarification
                /\ gr.result[1].routes = <<>>

\* the caller selects codegen on a planning query for which two other
\* routes were proposed, projplan first: the decision is codegen at 0.95
C13_SelectionOverProposal ==
    /\ gr.phase = "guarded"
    /\ gr.selected = Some("codegen")
    /\ gr.query = QUERY_PLAN
    /\ ~gr.raw.needs_clarification
    /\ Len(gr.raw.routes) = 2
    /\ gr.raw.routes[1].agent_id = "projplan"
    /\ gr.raw.routes[1].confidence = 100
    /\ "codegen" \in EnabledIds
    /\ gr.result[1].routes = <<RouteItem("codegen", 95, gr.raw.routes[1].subtask)>>

\* C14: applying apply_guardrails to its own output with the same query,
\* client selection and enabled-agent set yields a decision with the same
\* needs_clarification value and, when routed, the same single agent;
\* changed is reported true on both applications.
C14_GuardrailIdempotent ==
    gr.phase = "reguarded" =>
        /\ gr.again[1].response.needs_clarification
               = gr.result[1].needs_clarification
        /\ ~gr.result[1].needs_clarification =>
               /\ Len(gr.again[1].response.routes) = 1
               /\ gr.again[1].response.routes[1].agent_id
                      = gr.result[1].routes[1].agent_id
        /\ gr.changed = Some(TRUE)
        /\ gr.again[1].changed

\* no rule before the signal-based override matched: no conflict, no upstream
\* clarification, no client selection, a primary route that is enabled
NoEarlierRule ==
    /\ gr.phase = "guarded"
    /\ ~ConflictApplies
    /\ ~gr.raw.needs_clarification
    /\ gr.selected = None
    /\ gr.raw.routes # <<>>
    /\ gr.raw.routes[1].agent_id \in EnabledIds

\* the decision of the signal-based override to an agent
OverrideTo(agent_id) ==
    /\ ~gr.result[1].needs_clarification
    /\ gr.result[1].clarifying_questions = <<>>
    /\ Len(gr.result[1].routes) = 1
    /\ gr.result[1].routes[1].agent_id = agent_id
    /\ gr.result[1].routes[1].confidence
           = IF gr.raw.routes[1].confidence >= 95
             THEN gr.raw.routes[1].confidence ELSE 95

C16_SourceFailureClarifies ==
    (last.source \in {Some("LLMRouterError"), Some("Exception")}) =>
        /\ last.llm_called
        /\ last.status = 200
        /\ last.response # None
        /\ last.route_response # None
        /\ last.route_response[1].needs_clarification
        /\ last.route_response[1].routes = <<>>
        /\ Len(last.route_response[1].clarifying_questions) = 1
        /\ last.response[1].route_response = last.route_response[1]
        /\ last.response[1].agent_response = None
        /\ last.invoked = None
        /\ last.agent_response = None

\* the routing source raises an unexpected exception on a persisted request
\* of a new chat: the turn is stored as a question of the router, and the
\* chat holds no pending continuation
C16_UnexpectedErrorAsked ==
    /\ last.source = Some("Exception")
    /\ last.req.persist
    /\ last.req.chat_id = None
    /\ last.status = 200
    /\ last.response[1].route_response.clarifying_questions = <<Q_UNEXPECTED>>
    /\ last.response[1].chat_id # None
    /\ Len(doc.messages_by_chat[last.response[1].chat_id[1]]) = 2
    /\ doc.chats[last.response[1].chat_id[1]].pending_continuation = None

\* C17: in forced mode the routing-decision source is never called and the
\* decision is a clarification or a single route to the forced agent, never
\* a route to another agent: with no forced agent id it is a clarification
\* with zero routes; with a forced id that is disabled or unknown it is a
\* clarification; with an enabled forced id and a query without conflict it
\* is one route to that agent.
C17_ForcedMode ==
    (gr.phase = "routed" /\ gr.force_deterministic = Some(TRUE)) =>
        LET r == gr.result[1] IN
        /\ gr.llm_called = Some(FALSE)
        /\ \A i \in 1..Len(r.routes) :
               gr.selected # None /\ r.routes[i].agent_id = gr.selected[1]
        /\ ~r.needs_clarification => Len(r.routes) = 1
        /\ gr.selected = None => r.needs_clarification /\ r.routes = <<>>
        /\ (gr.selected # None /\ gr.selected[1] \notin EnabledIds)
               => r.needs_clarification
        /\ (gr.selected # None /\ gr.selected[1] \in EnabledIds /\ ~ConflictApplies)
               => /\ ~r.needs_clarification
                  /\ r.routes[1].agent_id = gr.selected[1]

\* projplan, which no agent list enables, is forced on a coding query: the
\* decision is a clarification without a route, and the source is not called
C17_ForcedDisabledAgent ==
    /\ gr.phase = "routed"
    /\ gr.force_deterministic = Some(TRUE)
    /\ gr.selected = Some("projplan")
    /\ "projplan" \notin EnabledIds
    /\ gr.query = QUERY_FIX
    /\ gr.llm_called = Some(FALSE)
    /\ gr.result[1].needs_clarification
    /\ gr.result[1].routes = <<>>
    /\ gr.result[1].routing_rationale = Some(R_SELECTED_UNAVAILABLE)

\* the checks of invoke_agent in the order the claim lists them
RunnerChecks ==
    <<"bad_request", "not_found", "disabled", "bad_entrypoint", "import_error",
      "symbol_not_found", "instantiate_error", "type_error", "agent_id_mismatch">>

\* the check fails on the inputs of the runner's run
CheckFails(check) ==
    CASE check = "bad_request" -> run.request.agent_id # run.agent_id
      [] check = "not_found" ->
             \A e \in run.registry : e.agent_id # run.agent_id
      [] check = "disabled" ->
             \E e \in run.registry : e.agent_id = run.agent_id /\ ~e.enabled
      [] OTHER -> check \in run.env.failing

\* C18: invoke_agent makes its checks in a fixed order and the first failing
\* check alone determines the error code; the handler's invoke runs only
\* after all of them pass, so the handler of a disabled or unregistered
\* agent is never invoked; an exception from the handler becomes
\* invoke_error unless it is a typed runner error, which is re-raised
\* unchanged.
C18_FirstFailingCheckDecides ==
    run.phase = "invoked" =>
        LET r == run.result[1] IN
        /\ \A i \in 1..Len(RunnerChecks) :
               (/\ CheckFails(RunnerChecks[i])
                /\ \A j \in 1..(i - 1) : ~CheckFails(RunnerChecks[j]))
                   => /\ r.code = RunnerChecks[i]
                      /\ r.response = None
                      /\ ~r.handler_invoked
        /\ r.handler_invoked <=> \A i \in 1..Len(RunnerChecks) : ~CheckFails(RunnerChecks[i])
        /\ r.handler_invoked =>
               CASE run.env.invoke.kind = "raise" ->
                        r.code = "invoke_error" /\ r.response = None
                 [] run.env.invoke.kind = "raise_typed" ->
                        r.code = run.env.invoke.code /\ r.response = None
                 [] OTHER ->
                        r.code = "" /\ r.response = Some(run.env.invoke.response)

\* an enabled agent whose module imports but whose symbol is missing, whose
\* constructor would raise and whose agent_id would differ: the error is
\* symbol_not_found and the handler is not invoked
C18_SymbolBeforeConstruction ==
    /\ run.phase = "invoked"
    /\ run.agent_id = "codegen"
    /\ run.request.agent_id = "codegen"
    /\ run.env.failing = {"symbol_not_found", "instantiate_error", "agent_id_mismatch"}
    /\ run.env.invoke.kind = "raise"
    /\ run.result[1].code = "symbol_not_found"
    /\ ~run.result[1].handler_invoked

\* the status the claim gives a typed dispatch error
DispatchStatus(code) ==
    CASE code = "not_found" -> 404
      [] code \in {"disabled", "bad_request", "agent_id_mismatch"} -> 400
      [] OTHER -> 500

\* C19: at every boundary that invokes an agent (the continuation path and
\* the fresh-route path of execute, the direct invoke endpoint) a typed
\* dispatch error is translated the same way: not_found gives 404, disabled,
\* bad_request and agent_id_mismatch give 400, every other code gives 500.
C19_DispatchErrorStatus ==
    /\ last.error # None =>
           /\ last.path \in {"continuation_error", "invoke_error", "agent_invoke_error"}
           /\ last.status = DispatchStatus(last.error[1])
           /\ last.response = None
           /\ last.agent_response = None
    /\ last.path \in {"continuation_error", "invoke_error", "agent_invoke_error"}
           => last.error # None

\* the routing source hinted at projplan, which is disabled: the answer of
\* the next turn re-invokes projplan and fails with a 400
C19_ContinuationToDisabledAgent ==
    /\ last.path = "continuation_error"
    /\ last.invoked # None
    /\ last.invoked[1].agent_id = "projplan"
    /\ last.error = Some("disabled")
    /\ last.status = 400

\* the text of the snippet stage of the run, once invoke has run that stage
GeneratedCode == run_snippet(cg.env.snippet_raw)

SnippetStageRan ==
    /\ cg.phase = "done"
    /\ \E k \in 1..Len(cg.result[1].stages) : cg.result[1].stages[k] = "snippet"

\* a line that starts as a diff header or a hunk header does
DiffMarkerLine(line) ==
    \/ lit_at(line, 1, <<"d", "i", "f", "f", " ", "-", "-", "g", "i", "t">>)
    \/ lit_at(line, 1, <<"+", "+", "+">>)
    \/ lit_at(line, 1, <<"@", "@">>)

HasDiffMarkerLine(code) ==
    \E k \in 1..Len(splitlines(code)) : DiffMarkerLine(splitlines(code)[k])

\* C20: in snippet mode, whenever the text of the snippet stage has a line
\* that is a diff --git, +++ or @@ marker (for example +++ b/app.py or
\* @@ -1,3 +1,4 @@), the agent returns needs_clarification with no
\* artifacts, so the text is never emitted as a patch or snippet artifact.
C20_DiffMarkersRejected ==
    (SnippetStageRan /\ HasDiffMarkerLine(GeneratedCode))
        => /\ cg.result[1].response.status = "needs_clarification"
           /\ cg.result[1].response.artifacts = <<>>

\* the run took the debug-fix path
UsesDebugFix ==
    /\ cg.request.context.debug_fix
    /\ strip(cg.request.context.error_logs) # <<>>

\* the patch the patch stages of the run end with
FinalPatch ==
    IF UsesDebugFix
        THEN run_patch_writer(cg.env.writer_raw)
        ELSE run_revise(cg.env.revise_raw, run_patch(cg.env.patch_raw))

\* the run is over and was in patch mode
PatchModeRun ==
    /\ cg.phase = "done"
    /\ cg.result[1].snippet_mode = Some(FALSE)

\* the run went through one of the patch paths
PatchStagesRan ==
    /\ PatchModeRun
    /\ \E k \in 1..Len(cg.result[1].stages) :
           cg.result[1].stages[k] \in {"reviser", "patch_writer"}

\* a line of a "*** Begin Patch" patch that deletes a test file or moves a
\* file to a test path
LegacyTestLine(line) ==
    \/ /\ lit_at(line, 1, <<"*", "*", "*", " ", "D", "e", "l", "e", "t", "e", " ", "F", "i", "l", "e", ":", " ">>)
       /\ _is_test_path(strip(SubSeq(line, 18, Len(line))))
    \/ /\ lit_at(line, 1, <<"*", "*", "*", " ", "M", "o", "v", "e", " ", "t", "o", ":", " ">>)
       /\ _is_test_path(strip(SubSeq(line, 14, Len(line))))

\* the patch deletes, renames or moves a test file, in the git form or in
\* the "*** Begin Patch" form
RemovesTestFile(patch) ==
    \/ _patch_deletes_or_moves_tests(patch)
    \/ /\ lit_at(patch, 1, <<"*", "*", "*", " ", "B", "e", "g", "i", "n", " ", "P", "a", "t", "c", "h">>)
       /\ \E k \in 1..Len(splitlines(patch)) :
              LegacyTestLine(splitlines(patch)[k])

\* the task names tests together with delete, remove, rename or move
TaskAsksToRemoveTests ==
    /\ contains(lower(cg.request.task), <<"t", "e", "s", "t">>)
    /\ any_in(lower(cg.request.task), {<<"d", "e", "l", "e", "t", "e">>, <<"r", "e", "m", "o", "v", "e">>, <<"r", "e", "n", "a", "m", "e">>, <<"m", "o", "v", "e">>})

\* C21: in patch mode, on the implement/revise path and on the debug-fix
\* path and for each form of patch the stages accept, a final patch that
\* deletes, renames or moves a test file gives needs_clarification with no
\* artifacts, unless the task names tests together with delete, remove,
\* rename or move.
C21_TestRemovalRejected ==
    (PatchStagesRan /\ RemovesTestFile(FinalPatch) /\ ~TaskAsksToRemoveTests)
        => /\ cg.result[1].response.status = "needs_clarification"
           /\ cg.result[1].response.artifacts = <<>>

\* the number of file blocks of the generated text, and of distinct files
\* the plan names
FileBlocks == Len(parse_snippet(GeneratedCode).files)

PlanFiles ==
    Cardinality({strip(cg.env.plan.files_to_touch[k]) :
                     k \in 1..Len(cg.env.plan.files_to_touch)} \ {<<>>})

\* the task reads as a question, and as a request to generate
TaskIsQuestion ==
    LET t == lower(strip(cg.request.task))
    IN  \/ contains(t, <<"?">>)
        \/ \E w \in {<<"w", "h", "a", "t", " ">>, <<"w", "h", "y", " ">>, <<"h", "o", "w", " ">>, <<"c", "a", "n", " ", "y", "o", "u", " ">>} : lit_at(t, 1, w)
        \/ contains(t, <<"e", "x", "p", "l", "a", "i", "n">>)

TaskAsksGeneration ==
    any_in(lower(strip(cg.request.task)),
           {<<"g", "e", "n", "e", "r", "a", "t", "e">>, <<"s", "c", "a", "f", "f", "o", "l", "d">>, <<"c", "r", "e", "a", "t", "e", " ">>, <<"w", "r", "i", "t", "e", " ">>, <<"i", "m", "p", "l", "e", "m", "e", "n", "t">>, <<"a", "d", "d", " ">>,
            <<"r", "e", "m", "o", "v", "e", " ">>, <<"r", "e", "f", "a", "c", "t", "o", "r">>, <<"p", "a", "t", "c", "h">>, <<"d", "i", "f", "f">>})

\* the response is the clarification of the completeness guardrail: its note
\* states the blocks expected and the blocks got
CitesBlocks(response, expected, got) ==
    /\ response.status = "needs_clarification"
    /\ response.artifacts = <<>>
    /\ \E k \in 1..Len(response.notes) :
           /\ contains(response.notes[k],
                       <<"e", "x", "p", "e", "c", "t", "e", "d", " ", ">", "=", " ">> \o str_int(expected) \o <<" ">>)
           /\ contains(response.notes[k],
                       <<"b", "l", "o", "c", "k", "s", ",", " ", "g", "o", "t", " ">> \o str_int(got) \o <<")">>)

\* the response passes the generated text through as an answer
ChatAnswer(response) ==
    /\ response.status = "ok"
    /\ response.artifacts = <<>>
    /\ response.notes = <<strip(GeneratedCode)>>

\* what the completeness guardrail gives a text with too few file blocks
IncompleteOutcome ==
    IF FileBlocks = 0 /\ TaskIsQuestion /\ ~TaskAsksGeneration
        THEN ChatAnswer(cg.result[1].response)
        ELSE CitesBlocks(cg.result[1].response, PlanFiles, FileBlocks)

\* C22 as stated: in snippet mode, a generated text with fewer file blocks
\* than the plan names distinct files gives needs_clarification with a note
\* that states the blocks expected and got, except that a text without file
\* blocks is passed through as an ok answer when the task reads as a question
\* and not as a request to generate.
C22_TooFewBlocksRejected ==
    (SnippetStageRan /\ FileBlocks < PlanFiles) => IncompleteOutcome

\* C22 as the code has it: the same for a generated text in which the
\* diff-marker guardrail, which comes first, finds no marker.
C22_TooFewBlocksRejectedAfterMarkers ==
    (SnippetStageRan /\ FileBlocks < PlanFiles
        /\ ~has_diff_markers(GeneratedCode))
        => IncompleteOutcome

\* the plan names two files and the generated text has one file block
C22_OneBlockOfTwo ==
    /\ SnippetStageRan
    /\ PlanFiles = 2
    /\ FileBlocks = 1
    /\ cg.result[1].exit = "incomplete"

\* a text without file blocks answered a question although the plan names
\* a file
C22_QuestionAnswered ==
    /\ SnippetStageRan
    /\ PlanFiles >= 1
    /\ FileBlocks = 0
    /\ cg.result[1].exit = "chat"

\* two steps are equal when case and the whitespace around and inside them
\* are ignored
SameStep(a, b) ==
    lower(collapse_space(strip(a))) = lower(collapse_space(strip(b)))

NamesCompileall(step) == contains(lower(step), <<"c", "o", "m", "p", "i", "l", "e", "a", "l", "l">>)

CleanedSteps == cg.result[1]

\* C23: for every step list, profile, task and context drawn, the cleaned
\* verification steps are at most 6, no two of them are equal when case and
\* whitespace are ignored, and for a Python profile one of them names
\* compileall.
C23_StepsCappedDistinctCompiled ==
    cg.phase = "cleaned"
        => /\ Len(CleanedSteps) <= 6
           /\ \A i, j \in 1..Len(CleanedSteps) :
                  i # j => ~SameStep(CleanedSteps[i], CleanedSteps[j])
           /\ lower(cg.language) = <<"p", "y", "t", "h", "o", "n">>
                  => \E k \in 1..Len(CleanedSteps) :
                         NamesCompileall(CleanedSteps[k])

\* a Python profile and seven distinct steps without compileall: six steps
\* are emitted and the first is the compileall that was added
C23_CompileallAddedUnderCap ==
    /\ cg.phase = "cleaned"
    /\ cg.language = <<"p", "y", "t", "h", "o", "n">>
    /\ Len(cg.steps) = 7
    /\ \A k \in 1..Len(cg.steps) : ~NamesCompileall(cg.steps[k])
    /\ Len(CleanedSteps) = 6
    /\ NamesCompileall(CleanedSteps[1])

\* the number of the first guardrail rule, in the listed order, whose
\* condition the inputs of the run meet (6 stands for the last two rules,
\* which both route)
FirstRule ==
    IF ConflictApplies THEN 1
    ELSE IF gr.raw.needs_clarification THEN 2
    ELSE IF gr.selected # None THEN 3
    ELSE IF gr.raw.routes = <<>> THEN 4
    ELSE IF gr.raw.routes[1].agent_id \notin EnabledIds THEN 5
    ELSE 6

\* the decision is the upstream clarification passed through: the questions
\* asked upstream that are not blank, at most two of them, the two generic
\* questions if there is none, and at most the first route
PassedThrough(r) ==
    LET asked == stripped_questions(gr.raw.clarifying_questions)
    IN  /\ r.needs_clarification
        /\ r.clarifying_questions =
               IF asked = <<>> THEN <<Q_FALLBACK_1, Q_FALLBACK_2>>
               ELSE prefix(asked, 2)
        /\ Len(r.clarifying_questions) <= 2
        /\ r.routes = prefix(gr.raw.routes, 1)

\* the decision is the one of the client-override rule
ClientDecided(r) ==
    IF gr.selected[1] \in EnabledIds
        THEN /\ ~r.needs_clarification
             /\ Len(r.routes) = 1
             /\ r.routes[1].agent_id = gr.selected[1]
             /\ r.routes[1].confidence = 95
        ELSE /\ r.needs_clarification
             /\ r.routes = <<>>
             /\ Len(r.clarifying_questions) = 1
             /\ contains(r.clarifying_questions[1], Q_SELECTED_PREFIX)

\* the decision is a clarification with the one question given and no route
AsksOnly(r, question) ==
    /\ r.needs_clarification
    /\ r.clarifying_questions = <<question>>
    /\ r.routes = <<>>

\* C24: the guardrail rules are applied in the listed order and the first
\* rule that matches decides; a raw decision that asks for clarification
\* comes back as a clarification (at most two questions, the two generic
\* questions if none, at most one route) also when the caller selected an
\* enabled agent, and the conflict rule decides before a client selection.
C24_FirstMatchingRuleDecides ==
    gr.phase = "guarded" =>
        LET r == gr.result[1]
        IN  /\ FirstRule = 1 => r = ConflictDecision
            /\ FirstRule = 2 => PassedThrough(r)
            /\ FirstRule = 3 => ClientDecided(r)
            /\ FirstRule = 4 => AsksOnly(r, Q_WHICH_AGENT)
            /\ FirstRule = 5 => AsksOnly(r, Q_NO_MATCH)
            /\ FirstRule = 6
                   => /\ ~r.needs_clarification
                      /\ Len(r.routes) = 1
                      /\ r.clarifying_questions = <<>>

\* the raw decision asks for clarification without a question and routes to
\* planner, the caller selected codegen, which is enabled: the decision is a
\* clarification with the two generic questions and the planner route
C24_ClarificationOverSelection ==
    /\ gr.phase = "guarded"
    /\ gr.query = QUERY_BLANK
    /\ gr.raw.needs_clarification
    /\ gr.raw.clarifying_questions = <<>>
    /\ gr.selected = Some("codegen")
    /\ "codegen" \in EnabledIds
    /\ gr.result[1].needs_clarification
    /\ gr.result[1].clarifying_questions = <<Q_FALLBACK_1, Q_FALLBACK_2>>
    /\ Len(gr.result[1].routes) = 1
    /\ gr.result[1].routes[1].agent_id = "planner"

\* the position of a stage in the order of the pipeline: intake, project
\* scan, planner, the stages of the generation, reporter
StageRank(stage) ==
    CASE stage = "intake" -> 1
      [] stage = "scan" -> 2
      [] stage = "planner" -> 3
      [] stage \in {"snippet", "implementer", "reviewer", "solid_critic",
                    "reviser", "debugger", "patch_writer"} -> 4
      [] stage = "reporter" -> 5

\* the stages called, in the order of the calls
StagesCalled == cg.result[1].stages

\* the stages were called in the order of the pipeline: intake first, no
\* stage before one of an earlier position, no stage twice, and the mode
\* decided before the planner is called
StagesInOrder ==
    /\ StagesCalled[1] = "intake"
    /\ \A i, j \in 1..Len(StagesCalled) :
           i < j => /\ StageRank(StagesCalled[i]) <= StageRank(StagesCalled[j])
                    /\ StagesCalled[i] # StagesCalled[j]
    /\ (\E k \in 1..Len(StagesCalled) : StagesCalled[k] = "planner")
           => cg.result[1].snippet_mode # None

ReportCalled ==
    \E k \in 1..Len(StagesCalled) : StagesCalled[k] = "reporter"

\* C25 as stated: the stages are called in the order of the pipeline, and a
\* run the test-protection guardrail rejects has called no reporter.
C25_GuardrailBeforeReport ==
    cg.phase = "done"
        => /\ StagesInOrder
           /\ cg.result[1].exit = "test_deletion" => ~ReportCalled

\* C25 as the code has it: the stages are called in the order intake,
\* optional project scan, mode decision, planner, generation, reporter; the
\* guardrails on the generated snippet and the empty-patch exit end the run
\* before the reporter is called; the test-protection guardrail and the
\* report check are evaluated after the reporter has been called, so a run
\* that guardrail rejects has called the reporter as its last stage.
C25_ReportBeforeTestGuardrail ==
    cg.phase = "done"
        => /\ StagesInOrder
           /\ cg.result[1].exit \in {"test_deletion", "done"}
                  <=> ReportCalled
           /\ ReportCalled
                  => StagesCalled[Len(StagesCalled)] = "reporter"

\* a run with a project scan whose final patch deletes a test file: rejected
\* after the reporter was called
C25_RejectedAfterReport ==
    /\ cg.phase = "done"
    /\ cg.result[1].exit = "test_deletion"
    /\ cg.result[1].response.status = "needs_clarification"
    /\ StagesCalled[2] = "scan"
    /\ StagesCalled[Len(StagesCalled)] = "reporter"
    /\ cg.result[1].report_input # None

\* the intake stage asks: its reply cannot be parsed, or it sets
\* needs_clarification
IntakeAsks ==
    \/ cg.env.intake_data = None
    \/ cg.env.intake_data[1].needs_clarification

\* C26: when the intake stage asks for clarification, also because its reply
\* cannot be parsed, intake is the only stage called and the response is
\* needs_clarification with no artifacts and one to three clarifying
\* questions.
C26_IntakeExit ==
    (cg.phase = "done" /\ IntakeAsks)
        => /\ cg.result[1].stages = <<"intake">>
           /\ cg.result[1].report_input = None
           /\ cg.result[1].response.status = "needs_clarification"
           /\ cg.result[1].response.artifacts = <<>>
           /\ Len(cg.result[1].response.clarifying_questions) \in 1..3
           /\ \A k \in 1..Len(cg.result[1].response.clarifying_questions) :
                  strip(cg.result[1].response.clarifying_questions[k]) # <<>>

\* the intake asked five questions: three are returned and no other stage was
\* called
C26_FiveQuestionsAsked ==
    /\ cg.phase = "done"
    /\ cg.env.intake_data # None
    /\ cg.env.intake_data[1].needs_clarification
    /\ Len(cg.env.intake_data[1].questions) = 5
    /\ cg.result[1].stages = <<"intake">>
    /\ Len(cg.result[1].response.clarifying_questions) = 3

\* what the intake stage of the run resolved
ResolvedIntake ==
    run_intake(cg.env.intake_data, cg.request.task, cg.request.context)

\* the run got past the intake stage
PastIntake == cg.phase = "done" /\ ~IntakeAsks

\* the task text is detected as pasted code
TaskIsPastedCode ==
    strip(cg.request.task) # <<>> /\ looks_like_inline_code(cg.request.task)

Called(stage) ==
    \E k \in 1..Len(StagesCalled) : StagesCalled[k] = stage

IsGenerationStage(stage) == StageRank(stage) = 4

\* the generation stages the run called, in the order of the calls
GenerationStages == SelectSeq(StagesCalled, IsGenerationStage)

DebugFixStages == <<"debugger", "patch_writer", "reviewer", "solid_critic">>

\* the run got past the intake and the mode decision
PastModeDecision ==
    PastIntake /\ cg.result[1].exit # "files_needed"

\* C28 as stated: a run past intake and mode decision whose context has a
\* non-empty error log and the debug_fix flag calls debugger, patch writer,
\* reviewer and SOLID critic in this order, and neither the implementer, the
\* reviser nor the snippet stage.
C28_DebugFixPath ==
    (/\ PastModeDecision
     /\ cg.request.context.debug_fix
     /\ cg.request.context.error_logs # <<>>)
        => GenerationStages = DebugFixStages

\* C28 as the code has it: the same for a run in patch mode whose error log
\* is not blank; a patch-mode run with a blank error log or without the flag
\* calls implementer, reviewer, SOLID critic and reviser, and a run in
\* snippet mode calls the snippet stage only, whatever the error log and the
\* flag.
C28_DebugFixPathInPatchMode ==
    PastModeDecision
        => GenerationStages =
               IF cg.result[1].snippet_mode = Some(TRUE) THEN <<"snippet">>
               ELSE IF UsesDebugFix THEN DebugFixStages
               ELSE <<"implementer", "reviewer", "solid_critic", "reviser">>

\* a pasted function with an error log and the flag, no context files: the
\* debug-fix stages are called on the file made of the task
C28_DebugFixOnPastedCode ==
    /\ PastModeDecision
    /\ cg.request.context.files = <<>>
    /\ TaskIsPastedCode
    /\ UsesDebugFix
    /\ GenerationStages = DebugFixStages
    /\ cg.result[1].exit = "done"

\* the result of a review that could not be parsed, and of a critique
FailedReview(review) ==
    /\ review.findings = <<>>
    /\ review.edge_cases = <<>>
    /\ review.improvements = <<>>
    /\ Len(review.must_fix) = 1
    /\ contains(review.must_fix[1], <<"f", "a", "i", "l", "e", "d", " ", "t", "o", " ", "r", "e", "t", "u", "r", "n", " ", "v", "a", "l", "i", "d", " ", "J", "S", "O", "N">>)

FailedCritique(solid) ==
    /\ solid.solid = <<>>
    /\ solid.pattern_justification = <<>>
    /\ solid.recommended_changes = <<>>
    /\ Len(solid.issues) = 1
    /\ contains(solid.issues[1], <<"f", "a", "i", "l", "e", "d", " ", "t", "o", " ", "r", "e", "t", "u", "r", "n", " ", "v", "a", "l", "i", "d", " ", "J", "S", "O", "N">>)

\* C29: a patch-mode run past the mode decision whose final patch (the
\* revision, or the implementer's patch when the revision is empty, or the
\* patch of the patch writer) is blank returns needs_clarification without
\* artifacts and without a call of the reporter, so that no blank patch is
\* emitted; a review or critique whose reply cannot be parsed does not end
\* the run: the four generation stages are called and the reporter is given
\* an empty review or critique with one must-fix or issue note.
C29_NoEmptyPatch ==
    (PastModeDecision /\ PatchModeRun)
        => /\ IF strip(FinalPatch) = <<>>
                  THEN /\ cg.result[1].response.status = "needs_clarification"
                       /\ cg.result[1].response.artifacts = <<>>
                       /\ ~ReportCalled
                  ELSE ReportCalled
           /\ cg.result[1].response.status = "ok"
                  => /\ cg.result[1].response.artifacts[1]
                            = PatchArtifact(FinalPatch)
                     /\ strip(cg.result[1].response.artifacts[1].value) # <<>>
           /\ Len(GenerationStages) = 4
           /\ (ReportCalled /\ cg.env.review_data = None)
                  => FailedReview(cg.result[1].report_input[1].review)
           /\ (ReportCalled /\ cg.env.solid_data = None)
                  => FailedCritique(cg.result[1].report_input[1].solid)

\* the implementer replies prose, the review cannot be parsed and the
\* revision is blank: the run goes on to the reviser and ends without patch
\* and without report
C29_BlankRevisionOfNoPatch ==
    /\ PastModeDecision
    /\ PatchModeRun
    /\ ~UsesDebugFix
    /\ cg.env.review_data = None
    /\ run_patch(cg.env.patch_raw) = <<>>
    /\ strip(cg.env.revise_raw) = <<>>
    /\ GenerationStages = <<"implementer", "reviewer", "solid_critic", "reviser">>
    /\ cg.result[1].exit = "empty_patch"
    /\ ~ReportCalled

\* the turn was resolved, persisted and routed to an agent other than planner
ResolvedByOtherAgent ==
    /\ last.path = "resolved"
    /\ last.req.persist
    /\ last.response[1].route_response.routes[1].agent_id # "planner"

\* the notes of the agent joined by newlines, and the assistant message the
\* turn stored
JoinedNotes == join(NL, last.response[1].agent_response[1].notes)

StoredContent ==
    LET msgs == doc.messages_by_chat[last.response[1].chat_id[1]]
    IN  msgs[Len(msgs)].content

HeadingsFound == {h \in ReporterHeadings : contains(JoinedNotes, h)}

\* the template of five sections with body under the first heading
Template(body) ==
    H_KEY_POINTS \o NL \o body \o NL \o NL
        \o H_WHAT_CHANGED \o NL \o S_NOT_APPLICABLE \o NL \o NL
        \o H_WHY \o NL \o S_NOT_APPLICABLE \o NL \o NL
        \o H_DESIGN \o NL \o S_NOT_APPLICABLE \o NL \o NL
        \o H_TESTS \o NL \o S_NOT_APPLICABLE

\* what stands under KEY POINTS ACHIEVED: the notes trimmed, the routing
\* summary when the agent gave no note, "Not applicable." when that is blank
KeyPoints ==
    LET primary == last.response[1].route_response.routes[1]
        raw == IF last.response[1].agent_response[1].notes # <<>>
                   THEN JoinedNotes
                   ELSE S_ROUTED_TO \o _value_str(primary.agent_id)
                            \o S_CONFIDENCE
                            \o format_confidence(primary.confidence)
                            \o S_CLOSE
    IN  IF strip(raw) # <<>> THEN strip(raw) ELSE S_NOT_APPLICABLE

\* C30 as stated: the stored content is the notes unchanged when they contain
\* all five headings, and the template when at least one heading is missing.
C30_AllHeadingsOrTemplate ==
    ResolvedByOtherAgent
        => StoredContent =
               IF HeadingsFound = ReporterHeadings THEN JoinedNotes
               ELSE Template(KeyPoints)

\* C30 as the code has it: the stored content is the notes unchanged when
\* they contain at least one of the five headings, and the template when
\* they contain none.
C30_AnyHeadingOrTemplate ==
    ResolvedByOtherAgent
        => StoredContent =
               IF HeadingsFound # {} THEN JoinedNotes
               ELSE Template(KeyPoints)

\* notes with four of the five headings are stored unchanged
C30_FourHeadingsKept ==
    /\ ResolvedByOtherAgent
    /\ Cardinality(HeadingsFound) = 4
    /\ StoredContent = JoinedNotes

\* the profile of the run was detected
Profiled == cg.phase = "profiled"

\* the context names a language of its own
ExplicitLanguage == strip(cg.context.language) # <<>>

\* the extensions of the files of the context, and the ones detect_profile
\* knows
Extensions == exts_of(cg.context.files)

RecognisedExtensions == {<<"p", "y">>, <<"j", "a", "v", "a">>, <<"c", "s">>, <<"t", "s">>, <<"t", "s", "x">>, <<"j", "s">>, <<"j", "s", "x">>}

\* the language the extensions give when no task is read and no framework
\* is named
LanguageOfExtensions ==
    detect_profile(CodegenContext(cg.context.files, <<>>, FALSE, FALSE,
                                  <<>>, <<>>, <<>>), <<>>).language

\* C31: the language of the profile is the explicit context.language,
\* unchanged, when the context names one; otherwise, when a file of the
\* context has a recognised extension, it is decided by the extensions alone,
\* whatever the task says (.jsx or .js without .ts or .tsx give javascript,
\* .tsx gives typescript); the keywords of the task are read only when no
\* extension decides.
C31_ExplicitThenFilesThenKeywords ==
    Profiled =>
        /\ ExplicitLanguage => cg.result[1].language = cg.context.language
        /\ (~ExplicitLanguage /\ Extensions \cap RecognisedExtensions # {})
               => /\ cg.result[1].language = LanguageOfExtensions
                  /\ (/\ Extensions \cap {<<"j", "s">>, <<"j", "s", "x">>} # {}
                      /\ Extensions \cap {<<"t", "s">>, <<"t", "s", "x">>} = {})
                         => cg.result[1].language = <<"j", "a", "v", "a", "s", "c", "r", "i", "p", "t">>
                  /\ <<"t", "s", "x">> \in Extensions
                         => cg.result[1].language = <<"t", "y", "p", "e", "s", "c", "r", "i", "p", "t">>

\* the same with the explicit language compared after trimming and
\* lower-casing, and the extensions deciding unless the task or the framework
\* names React
C31_ExplicitNormalisedThenFiles ==
    Profiled =>
        /\ ExplicitLanguage
               => cg.result[1].language = lower(strip(cg.context.language))
        /\ (/\ ~ExplicitLanguage
            /\ Extensions \cap RecognisedExtensions # {}
            /\ ~contains(lower(cg.task), <<"r", "e", "a", "c", "t">>)
            /\ lower(strip(cg.context.framework)) # <<"r", "e", "a", "c", "t">>)
               => cg.result[1].language = LanguageOfExtensions

\* a JavaScript file and a task that names React and TypeScript: the
\* language is typescript
C31_TaskOverridesExtension ==
    /\ Profiled
    /\ ~ExplicitLanguage
    /\ Extensions = {<<"j", "s">>}
    /\ cg.task = TASK_REACT_TS
    /\ cg.result[1].language = <<"t", "y", "p", "e", "s", "c", "r", "i", "p", "t">>

\* the document holds what the k-th write did: the chat it created, the
\* message it appended, or the pending continuation it set
EffectPresent(k) ==
    LET call == th.log[k].call
    IN  IF call.op = "create_chat" THEN th.log[k].wrote \in DOMAIN doc.chats
        ELSE IF call.op = "create_message"
            THEN /\ call.chat_id \in DOMAIN doc.messages_by_chat
                 /\ \E i \in 1..Len(doc.messages_by_chat[call.chat_id]) :
                        doc.messages_by_chat[call.chat_id][i].message_id
                            = th.log[k].wrote
        ELSE /\ call.chat_id \in DOMAIN doc.chats
             /\ doc.chats[call.chat_id].pending_continuation = call.pending

\* the writes the k-th write was built on: itself, and the ones the document
\* it had loaded was built on
RECURSIVE BuiltOn(_)
BuiltOn(k) == IF k = 0 THEN {} ELSE {k} \cup BuiltOn(th.log[k].seen)

\* a later write on which the last one is built set the same field as the
\* k-th one
SetAgain(k) ==
    /\ th.log[k].call.op = "set_pending_continuation"
    /\ \E j \in BuiltOn(Len(th.log)) :
           /\ j > k
           /\ th.log[j].call.op = "set_pending_continuation"
           /\ th.log[j].call.chat_id = th.log[k].call.chat_id

\* the k-th write left something no other call leaves: a chat, a message, or
\* a pending continuation with its own query
Observable(k) ==
    th.log[k].call.op = "set_pending_continuation"
        => th.log[k].call.pending # None

\* C32: the store is read and written as one whole document without a
\* lock, so the last writer wins: the document holds what a call did exactly
\* when the last write was built on it (the last writer had loaded a document
\* that held it), and a call that returned while another one held an older
\* copy is lost when that copy is written.
C32_LastWriteWins ==
    \A k \in 1..Len(th.log) :
        Observable(k)
            => (EffectPresent(k) <=> (k \in BuiltOn(Len(th.log)) /\ ~SetAgain(k)))

\* an append and a set_pending_continuation on the same chat, on two
\* threads, have both returned; the pending continuation is stored and the
\* appended message is not
C32_AppendLost ==
    \E i, j \in 1..Len(th.log) :
        /\ th.log[i].call.op = "create_message"
        /\ th.log[j].call.op = "set_pending_continuation"
        /\ th.log[i].call.chat_id = th.log[j].call.chat_id
        /\ th.log[i].thread # th.log[j].thread
        /\ th.log[j].call.pending # None
        /\ \A t \in Threads : th.of[t].pc = "returned"
        /\ EffectPresent(j)
        /\ ~EffectPresent(i)

\* the agents of the registry that are enabled
RegistryEnabledIds == {e.agent_id : e \in {a \in Registry : a.enabled}}

\* the turn stored a pending continuation: the chat holds one it did not hold
\* before
StoredPending(c) ==
    /\ c \in DOMAIN doc.chats
    /\ doc.chats[c].pending_continuation # None
    /\ (c \in DOMAIN last.before.chats
           => last.before.chats[c].pending_continuation
                  # doc.chats[c].pending_continuation)

\* C33: the agent of a pending continuation is registered and enabled when
\* the continuation is stored, whatever the routing source answered, so the
\* next turn's re-invocation does not fail with not_found or disabled because
\* of the agent stored.
C33_PendingAgentEnabled ==
    /\ \A c \in DOMAIN doc.chats :
           StoredPending(c)
               => doc.chats[c].pending_continuation[1].agent_id
                      \in RegistryEnabledIds
    /\ (last.path = "continuation_error" /\ last.req.chat_id # None)
           => last.before.chats[last.req.chat_id[1]].pending_continuation[1].agent_id
                  \in RegistryEnabledIds

\* chat c holds a pending continuation
Pending(c) ==
    /\ c \in DOMAIN doc.chats
    /\ doc.chats[c].pending_continuation # None

\* a persisted turn that names chat c arrives
TurnArrives(c) ==
    /\ \E t \in Threads : th.of[t].pc = "idle" /\ th'.of[t].pc = "responding"
    /\ last'.req.chat_id = Some(c)
    /\ last'.req.persist

\* C34: no chat stays in the pending_continuation state forever: while
\* persisted turns keep arriving for a chat that holds a pending
\* continuation, the chat returns to no_pending, also when the invocation of
\* the pending agent fails.
C34_PendingEventuallyCleared ==
    \A c \in 1..LiveMaxUuid :
        ([]<><<TurnArrives(c)>>_vars) => (Pending(c) ~> ~Pending(c))

\* the same for the chats whose pending agent answers on some turn that
\* arrives: the turn that gets a response clears the pending continuation
C34_AnsweredTurnClears ==
    [][\A c \in 1..LiveMaxUuid :
           (Pending(c) /\ TurnArrives(c) /\ last'.response # None)
               => ~Pending(c)']_vars

\* the turn was a continuation turn whose invocation of the pending agent
\* raised a dispatch error
ContinuationRaised ==
    /\ last.path = "continuation_error"
    /\ last.error # None

\* C35: when the invocation of the pending agent raises a dispatch error on
\* a continuation turn, the request fails with an error and no response, and
\* the store is exactly as the request found it: the pending continuation is
\* still set and neither the user message nor an assistant message is
\* appended.
C35_FailedContinuationKeepsStore ==
    ContinuationRaised =>
        /\ last.status \in {400, 404, 500}
        /\ last.response = None
        /\ last.req.persist
        /\ last.req.chat_id # None
        /\ last.before.chats[last.req.chat_id[1]].pending_continuation # None
        /\ doc = last.before
        /\ doc.chats[last.req.chat_id[1]].pending_continuation
               = last.before.chats[last.req.chat_id[1]].pending_continuation
        /\ list_messages(World(doc, now, uuid), last.req.chat_id[1])
               = last.before.messages_by_chat[last.req.chat_id[1]]

\* the handler of the pending agent raised on the answer to a clarification:
\* the chat holds the two messages of the first turn and its pending
\* continuation
C35_HandlerRaisedOnAnswer ==
    /\ ContinuationRaised
    /\ last.error = Some("invoke_error")
    /\ last.status = 500
    /\ Len(doc.messages_by_chat[last.req.chat_id[1]]) = 2
    /\ doc.chats[last.req.chat_id[1]].pending_continuation # None

\* the last request was an execute request that ended in an error response
ExecuteFailed ==
    /\ last.status # 200
    /\ last.path \in {"continuation_error", "invoke_error", "chat_not_found"}

\* the document d without chat c
WithoutChat(d, c) ==
    [chats |-> dict_pop(d.chats, c),
     messages_by_chat |-> dict_pop(d.messages_by_chat, c)]

PersistedTurnReturned ==
    /\ Answered
    /\ last.req.persist
    /\ last.path \in {"continuation", "route_clarification",
                      "agent_clarification", "resolved", "unrouted"}

\* the messages of chat c before the last request
MessagesBefore(c) ==
    IF c \in DOMAIN last.before.messages_by_chat
        THEN last.before.messages_by_chat[c]
        ELSE <<>>

\* the messages of a chat are user, assistant, user, assistant, ...
Alternating(msgs) ==
    /\ Len(msgs) % 2 = 0
    /\ \A k \in 1..Len(msgs) :
           msgs[k].role = IF k % 2 = 1 THEN "user" ELSE "assistant"

\* C37: every execute call with persist=true that returns a response appends
\* exactly two messages to its chat: a user message with the query of the
\* request, no routing metadata and no artifacts, then one assistant message;
\* on the continuation path, on both clarification paths and on the resolved
\* path.  A chat written through execute alone holds an even number of
\* messages, user and assistant in turn.
C37_TwoMessagesPerTurn ==
    /\ PersistedTurnReturned =>
           LET c == last.response[1].chat_id[1]
               before == MessagesBefore(c)
               after == doc.messages_by_chat[c]
           IN  /\ Len(after) = Len(before) + 2
               /\ SubSeq(after, 1, Len(before)) = before
               /\ after[Len(before) + 1].role = "user"
               /\ after[Len(before) + 1].content = last.req.query
               /\ after[Len(before) + 1].routing_meta = None
               /\ after[Len(before) + 1].artifacts = <<>>
               /\ after[Len(before) + 2].role = "assistant"
               /\ \A d \in (DOMAIN doc.messages_by_chat) \ {c} :
                      doc.messages_by_chat[d] = MessagesBefore(d)
    /\ \A c \in DOMAIN doc.messages_by_chat :
           Alternating(doc.messages_by_chat[c])

\* a chat has gone through a route-level clarification, its answer and a
\* resolved turn: it holds six messages
C37_ThreeTurnsSixMessages ==
    /\ PersistedTurnReturned
    /\ last.path = "resolved"
    /\ Len(doc.messages_by_chat[last.response[1].chat_id[1]]) = 6
    /\ doc.messages_by_chat[last.response[1].chat_id[1]][4].routing_meta
           = Some(RoutingMeta("planner", 100, "forced"))

\* the last request was an execute request that did not ask for persistence
UnpersistedRequest ==
    /\ last.path # "none"
    /\ ~last.req.persist

\* C38: an execute call with persist=false changes nothing in the store on
\* any path: no chat is created, no message is appended, no pending
\* continuation, routed agent id or updated_at changes, also when it names a
\* chat and when it ends in clarification; its response carries no chat_id.
C38_UnpersistedKeepsStore ==
    UnpersistedRequest =>
        /\ doc = last.before
        /\ last.created = <<>>
        /\ last.ensured_chat_id = None
        /\ last.response # None => last.response[1].chat_id = None

\* an unpersisted request names a chat that holds messages and a pending
\* continuation, and its agent asks for clarification
C38_UnpersistedAgentAsks ==
    /\ UnpersistedRequest
    /\ HeldPending
    /\ Answered
    /\ last.response[1].agent_response # None
    /\ last.response[1].agent_response[1].status = "needs_clarification"
    /\ Len(doc.messages_by_chat[NamedChat]) = 2
    /\ doc.chats[NamedChat].pending_continuation # None

\* the threads whose handler has returned
TurnsReturned == {t \in Threads : th.of[t].pc = "done"}

\* the handler of t re-invoked the pending agent
Reinvoked(t) == th.of[t].path \in ContinuationPaths

\* the requests of t and u ran concurrently on one chat: each read the chat
\* before the other returned
Concurrent(t, u) ==
    /\ t # u
    /\ th.of[t].chat_id = th.of[u].chat_id
    /\ th.of[t].seen < th.of[u].finished
    /\ th.of[u].seen < th.of[t].finished

\* both read the chat in the same state of the store, holding one pending
\* continuation
ReadSamePending(t, u) ==
    /\ th.of[t].seen = th.of[u].seen
    /\ th.of[t].pending # None
    /\ th.of[t].pending = th.of[u].pending

\* C39 as stated: of two concurrent persisted execute requests naming the
\* same chat that holds one pending continuation, at most one re-invokes the
\* pending agent.
C39_PendingConsumedOnce ==
    \A t \in TurnsReturned : \A u \in TurnsReturned :
        Concurrent(t, u) /\ ReadSamePending(t, u) =>
            ~(Reinvoked(t) /\ Reinvoked(u))

\* C39: a persisted execute request re-invokes the pending agent exactly when
\* the chat held a pending continuation when the request read it, whatever
\* other requests have done to the chat since; a request that read the chat
\* after the pending continuation was cleared is routed as a fresh request.
C39_ConsumedByEveryReader ==
    \A t \in TurnsReturned :
        th.of[t].chat_id # None =>
            (Reinvoked(t) <=> th.of[t].pending # None)

\* two concurrent requests both re-invoked the agent of the one pending
\* continuation of their chat, which now holds both exchanges
C39_BothReinvoked ==
    /\ TurnsReturned = Threads
    /\ Concurrent("a", "b")
    /\ Reinvoked("a")
    /\ Reinvoked("b")
    /\ ReadSamePending("a", "b")
    /\ Len(doc.messages_by_chat[th.of["a"].chat_id[1]]) = 6

====
